---- MODULE Spec2Model ----
(***************************************************************************)
(* Verification model of khankanz/llm-capecc-task.                         *)
(*                                                                         *)
(*   Spec          cap_dcis_resection/crane.py: ContextWindow              *)
(*   SpecValidate  cap_dcis_resection/validator.py: validate_context       *)
(*   SpecForm      dcis_resection_model.py: DCISResection form model       *)
(*   SpecSelection dcis_resection_model.py: the selection unions           *)
(*   SpecSchema    schemas.py: DistanceMM, SizeExtent, Margins,            *)
(*                 RegionalNodes                                           *)
(*   SpecApi       cap_dcis_resection/runners/serve_api.py: POST /prompts  *)
(*                                                                         *)
(* Python strings are sequences of one-character strings, so that split,   *)
(* strip and join are computed character by character.                     *)
(***************************************************************************)
EXTENDS Integers, Sequences, FiniteSets, TLC

VARIABLES
    cw_pc,            \* position of the ContextWindow caller
    window_size_arg,  \* constructor argument window_size
    overlap_arg,      \* constructor argument overlap
    window_size,      \* self.window_size (meaningful once constructed)
    overlap,          \* self.overlap     (meaningful once constructed)
    text,             \* argument of generate
    windows,          \* value returned by generate
    vc_pc,            \* position of the validate_context caller
    payload,          \* argument of validate_context
    today,            \* what date.today() returns during the call
    vc_result,        \* what validate_context returned (or that it raised)
    vc_dump,          \* context.to_dict() of the returned context
    vc_result2,       \* what validate_context returned for vc_dump
    vc_dump2,         \* to_dict() of the context validated from vc_dump
    form_pc,          \* position of the DCISResection caller
    form_payload,     \* untyped payload given to DCISResection validation
    form_model,       \* outcome of validating form_payload
    sel_pc,           \* position of the caller validating one selection union
    sel_union,        \* name of the union the payload is validated against
    sel_payload,      \* untyped payload given to the union
    sel_result,       \* outcome of validating sel_payload
    rec_pc,           \* position of the caller constructing a condensed model
    rec_class,        \* name of the model class of schemas.py
    rec_kwargs,       \* keyword arguments given to the class
    rec_result,       \* outcome of the construction
    api_pc,           \* position of the POST /prompts request
    api_payload,      \* request body handed to build_prompt
    api_today,        \* what date.today() returns during the request
    api_locals,       \* ok, context, errors as assigned in build_prompt
    api_response,     \* what build_prompt returned or raised
    call,             \* per thread: the call it makes (operation and argument)
    th_pc,            \* per thread: position inside its call
    frame,            \* per thread: the local variables of its call
    th_result,        \* per thread: what its call returned
    obj_pc,           \* position of the caller that builds a context and a prompt
    heap,             \* the object at each address (a list, a dictionary or none)
    caller_items,     \* the caller's reference to the list it passes as specimens
    the_context,      \* the PatientContext; its specimens field is a reference
    context0,         \* the value of the context when its construction ended
    the_prompt,       \* the ResectionPrompt built on the context
    returned          \* the caller's reference to the dictionary it was given last

cwVars == <<cw_pc, window_size_arg, overlap_arg, window_size, overlap, text, windows>>

vcVars == <<vc_pc, payload, today, vc_result, vc_dump, vc_result2, vc_dump2>>

formVars == <<form_pc, form_payload, form_model>>

selVars == <<sel_pc, sel_union, sel_payload, sel_result>>

schemaVars == <<rec_pc, rec_class, rec_kwargs, rec_result>>

apiVars == <<api_pc, api_payload, api_today, api_locals, api_response>>

thVars == <<call, th_pc, frame, th_result>>

objVars == <<obj_pc, heap, caller_items, the_context, context0, the_prompt, returned>>

vars == <<cwVars, vcVars, formVars, selVars, schemaVars, apiVars, thVars, objVars>>

(***************************************************************************)
(* Bounds                                                                  *)
(***************************************************************************)
MaxTextLen == 11
MaxWindow == 3
MaxSpecimens == 2
MaxCallLen == 4
MaxLoopLen == 8

Min(a, b) == IF a < b THEN a ELSE b

(***************************************************************************)
(* Strings                                                                 *)
(***************************************************************************)
Whitespace == {" "}
TokenChars == {"a"}
Chars == Whitespace \cup TokenChars

Texts == UNION {[1..n -> Chars] : n \in 0..MaxTextLen}

RECURSIVE SplitFrom(_, _, _)
\* Scan s from position i; cur is the token being collected.
SplitFrom(s, i, cur) ==
    IF i > Len(s)
    THEN IF cur = <<>> THEN <<>> ELSE <<cur>>
    ELSE IF s[i] \in Whitespace
         THEN (IF cur = <<>> THEN <<>> ELSE <<cur>>) \o SplitFrom(s, i + 1, <<>>)
         ELSE SplitFrom(s, i + 1, Append(cur, s[i]))

RECURSIVE SplitOnEverySpaceFrom(_, _, _)
\* str.split(" "): every separator ends a (possibly empty) token.
SplitOnEverySpaceFrom(s, i, cur) ==
    IF i > Len(s)
    THEN <<cur>>
    ELSE IF s[i] \in Whitespace
         THEN <<cur>> \o SplitOnEverySpaceFrom(s, i + 1, <<>>)
         ELSE SplitOnEverySpaceFrom(s, i + 1, Append(cur, s[i]))

SplitOnEverySpace(s) == SplitOnEverySpaceFrom(s, 1, <<>>)

\* text.split(): tokens are the maximal runs of non-whitespace characters.
Split(s) == SplitFrom(s, 1, <<>>)

RECURSIVE Join(_)
\* " ".join(chunk)
Join(chunk) ==
    IF chunk = <<>> THEN <<>>
    ELSE IF Len(chunk) = 1 THEN chunk[1]
    ELSE chunk[1] \o <<" ">> \o Join(Tail(chunk))

\* tokens[lo:hi] for 0 <= lo, clipped at the end of the list.
Slice(tokens, lo, hi) == SubSeq(tokens, lo + 1, Min(hi, Len(tokens)))

(***************************************************************************)
(* ContextWindow                                                           *)
(***************************************************************************)
\* Mutant: the last check compares with > instead of >=.
ContextWindowInitOverlapMayEqual(ws, ov) ==
    IF ws <= 0 THEN [raised |-> TRUE, window_size |-> 0, overlap |-> 0]
    ELSE IF ov < 0 THEN [raised |-> TRUE, window_size |-> 0, overlap |-> 0]
    ELSE IF ov > ws THEN [raised |-> TRUE, window_size |-> 0, overlap |-> 0]
    ELSE [raised |-> FALSE, window_size |-> ws, overlap |-> ov]

\* ContextWindow.__init__: the three ValueError checks, then the two stores.
ContextWindowInit(ws, ov) ==
    IF ws <= 0 THEN [raised |-> TRUE, window_size |-> 0, overlap |-> 0]
    ELSE IF ov < 0 THEN [raised |-> TRUE, window_size |-> 0, overlap |-> 0]
    ELSE IF ov >= ws THEN [raised |-> TRUE, window_size |-> 0, overlap |-> 0]
    ELSE [raised |-> FALSE, window_size |-> ws, overlap |-> ov]

RECURSIVE SlidingFrom(_, _, _, _)
\* The while loop of _sliding_slices from a given start.
SlidingFrom(tokens, start, ws, step) ==
    IF start < Len(tokens)
    THEN <<Slice(tokens, start, start + ws)>>
         \o (IF step <= 0 THEN <<>> ELSE SlidingFrom(tokens, start + step, ws, step))
    ELSE <<>>

\* Mutant: the cursor advances by window_size, so windows never overlap.
SlidingSlicesNoOverlap(tokens, ws, ov) == SlidingFrom(tokens, 0, ws, ws)

\* ContextWindow._sliding_slices
SlidingSlices(tokens, ws, ov) == SlidingFrom(tokens, 0, ws, ws - ov)

\* ContextWindow.generate
GenerateWindows(txt, ws, ov) ==
    LET tokens == Split(txt) IN
    IF tokens = <<>> THEN <<>>
    ELSE LET chunks == SlidingSlices(tokens, ws, ov) IN
         [i \in 1..Len(chunks) |-> Join(chunks[i])]

CWInit ==
    /\ cw_pc = "start"
    /\ window_size_arg \in -1..MaxWindow
    /\ overlap_arg \in -1..MaxWindow
    /\ text \in Texts
    /\ window_size = 0
    /\ overlap = 0
    /\ windows = <<>>

\* ContextWindow(window_size, overlap) succeeds.
Construct ==
    /\ cw_pc = "start"
    /\ ~ContextWindowInit(window_size_arg, overlap_arg).raised
    /\ window_size' = ContextWindowInit(window_size_arg, overlap_arg).window_size
    /\ overlap' = ContextWindowInit(window_size_arg, overlap_arg).overlap
    /\ cw_pc' = "constructed"
    /\ UNCHANGED <<window_size_arg, overlap_arg, text, windows>>

\* ContextWindow(window_size, overlap) raises ValueError.
ConstructRaises ==
    /\ cw_pc = "start"
    /\ ContextWindowInit(window_size_arg, overlap_arg).raised
    /\ cw_pc' = "raised"
    /\ UNCHANGED <<window_size_arg, overlap_arg, window_size, overlap, text, windows>>

\* window.generate(text) on the constructed instance.
Generate ==
    /\ cw_pc = "constructed"
    /\ windows' = GenerateWindows(text, window_size, overlap)
    /\ cw_pc' = "generated"
    /\ UNCHANGED <<window_size_arg, overlap_arg, window_size, overlap, text>>

(***************************************************************************)
(* Python values of untrusted payloads                                     *)
(***************************************************************************)
Absent == [t |-> "absent"]            \* the key is not in the mapping
None == [t |-> "none"]
PyStr(chars) == [t |-> "str", s |-> chars]
PyInt(i) == [t |-> "int", n |-> i]
PyDate(year, month, day) == [t |-> "date", y |-> year, m |-> month, d |-> day]
\* datetime.datetime, a subclass of datetime.date (no microseconds, no tzinfo)
PyDateTime(year, month, day, hour, minute, second) ==
    [t |-> "datetime", y |-> year, m |-> month, d |-> day,
     hh |-> hour, mi |-> minute, ss |-> second]
PyList(items) == [t |-> "list", l |-> items]
\* A specimen mapping; keys other than these three are never read.
SpecimenDict(identifier, description, margin_status) ==
    [t |-> "dict", identifier |-> identifier, description |-> description,
     margin_status |-> margin_status]
\* A payload mapping; keys other than these four are never read.
PayloadDict(patient_id, clinical_history, report_date, specimens) ==
    [t |-> "dict", patient_id |-> patient_id, clinical_history |-> clinical_history,
     report_date |-> report_date, specimens |-> specimens]

\* dict.get(key, default)
Get(value, default) == IF value = Absent THEN default ELSE value

DigitChars == <<"0", "1", "2", "3", "4", "5", "6", "7", "8", "9">>
IsDigit(c) == \E i \in 1..10 : DigitChars[i] = c
DigitVal(c) == (CHOOSE i \in 1..10 : DigitChars[i] = c) - 1
Digit(i) == DigitChars[i + 1]

\* str(value) for the values a payload can hold here
Str(value) ==
    CASE value.t = "str" -> value.s
      [] value.t = "none" -> <<"N", "o", "n", "e">>
      [] value.t = "int" -> <<Digit(value.n)>>

\* bool(value)
Truthy(value) ==
    CASE value.t = "none" -> FALSE
      [] value.t = "str" -> value.s # <<>>
      [] value.t = "int" -> value.n # 0
      [] value.t = "list" -> value.l # <<>>
      [] OTHER -> TRUE

\* type(value).__name__
TypeName(value) ==
    CASE value.t = "none" -> "NoneType"
      [] value.t = "list" -> "list"
      [] OTHER -> value.t

RECURSIVE LStrip(_)
LStrip(s) == IF s # <<>> /\ Head(s) \in Whitespace THEN LStrip(Tail(s)) ELSE s

RECURSIVE RStrip(_)
RStrip(s) ==
    IF s # <<>> /\ s[Len(s)] \in Whitespace THEN RStrip(SubSeq(s, 1, Len(s) - 1)) ELSE s

\* Mutant: strips leading whitespace only.
StripLeadingOnly(s) == LStrip(s)

\* str.strip()
Strip(s) == RStrip(LStrip(s))

(***************************************************************************)
(* Exceptions: an evaluation either returns a value or raises              *)
(***************************************************************************)
Return(v) == [raised |-> FALSE, value |-> v]
Raise(type, message, arg) ==
    [raised |-> TRUE, type |-> type, error |-> [msg |-> message, arg |-> arg]]

\* str(exc): the message text and, where the message quotes a value, the value
ErrorText(exc) == exc.error

(***************************************************************************)
(* schemas.py: SpecimenDetail and PatientContext                           *)
(***************************************************************************)
\* SpecimenDetail(...) followed by __post_init__
SpecimenDetailInit(identifier, description, margin_status) ==
    LET normalized == Strip(identifier) IN
    IF normalized = <<>>
    THEN Raise("ValueError", "identifier must contain non-whitespace characters", <<>>)
    ELSE Return([identifier |-> normalized,
                 description |-> description,
                 margin_status |->
                    IF margin_status # None
                    THEN (IF Strip(margin_status.s) # <<>>
                          THEN PyStr(Strip(margin_status.s)) ELSE None)
                    ELSE None])

\* PatientContext(**kwargs) followed by __post_init__; report_date is Absent
\* when the keyword is not passed, and then default_factory date.today runs.
PatientContextInit(patient_id, clinical_history, report_date, specimens, now) ==
    IF patient_id = <<>> \/ Strip(patient_id) = <<>>
    THEN Raise("ValueError", "patient_id must contain non-whitespace characters", <<>>)
    ELSE Return([patient_id |-> Strip(patient_id),
                 clinical_history |-> Strip(clinical_history),
                 report_date |-> IF report_date = Absent THEN now ELSE report_date,
                 specimens |-> specimens])

(***************************************************************************)
(* validator.py                                                            *)
(***************************************************************************)
\* One iteration of the loop of _build_specimens.
BuildSpecimen(raw) ==
    IF raw.t # "dict"
    THEN Raise("AttributeError", "object has no attribute 'get'", TypeName(raw))
    ELSE SpecimenDetailInit(
            Str(Get(raw.identifier, PyStr(<<>>))),
            Str(Get(raw.description, PyStr(<<>>))),
            IF Get(raw.margin_status, None) # None
            THEN PyStr(Str(raw.margin_status)) ELSE None)

RECURSIVE BuildSpecimensFrom(_, _, _)
\* The for loop of _build_specimens over a list, from element i on.
BuildSpecimensFrom(items, i, specimens) ==
    IF i > Len(items) THEN Return(specimens)
    ELSE LET one == BuildSpecimen(items[i]) IN
         IF one.raised THEN one
         ELSE BuildSpecimensFrom(items, i + 1, Append(specimens, one.value))

\* _build_specimens(payload.get("specimens"))
BuildSpecimens(items) ==
    IF ~Truthy(items) THEN Return(<<>>)
    ELSE CASE items.t = "list" -> BuildSpecimensFrom(items.l, 1, <<>>)
           \* iterating a string yields its characters, themselves strings
           [] items.t = "str" -> BuildSpecimen(PyStr(<<items.s[1]>>))
           [] OTHER -> Raise("TypeError", "object is not iterable", TypeName(items))

IsLeap(y) == (y % 4 = 0 /\ y % 100 # 0) \/ y % 400 = 0
DaysInMonth(y, m) ==
    IF m = 2 THEN (IF IsLeap(y) THEN 29 ELSE 28)
    ELSE IF m \in {4, 6, 9, 11} THEN 30 ELSE 31

\* date.fromisoformat(s) on the YYYY-MM-DD form
FromIsoFormat(s) ==
    IF /\ Len(s) = 10
       /\ s[5] = "-"
       /\ s[8] = "-"
       /\ \A i \in {1, 2, 3, 4, 6, 7, 9, 10} : IsDigit(s[i])
    THEN LET y == DigitVal(s[1]) * 1000 + DigitVal(s[2]) * 100
                    + DigitVal(s[3]) * 10 + DigitVal(s[4])
             m == DigitVal(s[6]) * 10 + DigitVal(s[7])
             d == DigitVal(s[9]) * 10 + DigitVal(s[10])
         IN IF y < 1 THEN Raise("ValueError", "year is out of range", <<>>)
            ELSE IF m \notin 1..12 THEN Raise("ValueError", "month must be in 1..12", <<>>)
            ELSE IF d \notin 1..DaysInMonth(y, m)
                 THEN Raise("ValueError", "day is out of range for month", <<>>)
            ELSE Return(PyDate(y, m, d))
    ELSE Raise("ValueError", "Invalid isoformat string", s)

\* _parse_report_date(payload.get("report_date"))
ParseReportDate(value) ==
    IF value = None \/ value = PyStr(<<>>) THEN Return(None)
    \* isinstance(value, date) holds for a datetime as well
    ELSE IF value.t \in {"date", "datetime"} THEN Return(value)
    ELSE IF value.t = "str" THEN FromIsoFormat(value.s)
    ELSE Raise("TypeError", "report_date must be a date or ISO string", <<>>)

\* Mutant: the report date is parsed before the specimens are built.
TryBlockDateFirst(p, now) ==
    LET patient_id == Str(Get(p.patient_id, PyStr(<<>>)))
        clinical_history == Str(Get(p.clinical_history, PyStr(<<>>)))
        parsed_date == ParseReportDate(Get(p.report_date, None))
    IN IF parsed_date.raised THEN parsed_date
       ELSE LET specimens == BuildSpecimens(Get(p.specimens, None)) IN
            IF specimens.raised THEN specimens
            ELSE PatientContextInit(
                    patient_id, clinical_history,
                    IF parsed_date.value # None THEN parsed_date.value ELSE Absent,
                    specimens.value, now)

\* The body of the try block of validate_context, in evaluation order.
TryBlock(p, now) ==
    LET patient_id == Str(Get(p.patient_id, PyStr(<<>>)))
        clinical_history == Str(Get(p.clinical_history, PyStr(<<>>)))
        specimens == BuildSpecimens(Get(p.specimens, None))
    IN IF specimens.raised THEN specimens
       ELSE LET parsed_date == ParseReportDate(Get(p.report_date, None)) IN
            IF parsed_date.raised THEN parsed_date
            ELSE PatientContextInit(
                    patient_id, clinical_history,
                    IF parsed_date.value # None THEN parsed_date.value ELSE Absent,
                    specimens.value, now)

\* A returned (ok, context, errors) triple.
Triple(ok, context, errors) ==
    [raised |-> FALSE, ok |-> ok, context |-> context, errors |-> errors]

\* Mutant: the handler returns the error list without appending str(exc).
ValidateContextForgetsMessage(p, now) ==
    IF p.t # "dict"
    THEN Triple(FALSE, None, << [msg |-> "payload must be a dictionary", arg |-> <<>>] >>)
    ELSE LET body == TryBlock(p, now) IN
         IF body.raised THEN Triple(FALSE, None, <<>>)
         ELSE Triple(TRUE, body.value, <<>>)

\* validate_context(payload)
ValidateContext(p, now) ==
    IF p.t # "dict"
    THEN Triple(FALSE, None, << [msg |-> "payload must be a dictionary", arg |-> <<>>] >>)
    ELSE LET body == TryBlock(p, now) IN
         IF body.raised THEN Triple(FALSE, None, <<ErrorText(body)>>)
         ELSE Triple(TRUE, body.value, <<>>)

(***************************************************************************)
(* Payloads given to validate_context                                      *)
(***************************************************************************)
\* Every combination of values for the four keys validate_context reads, and
\* three payloads that are not mappings.
Payloads ==
    LET PatientIdValues ==
            {Absent, None, PyStr(<<>>), PyStr(<<" ">>), PyStr(<<" ", "p", " ">>), PyInt(7)}
        ClinicalHistoryValues == {Absent, PyStr(<<" ", "h">>)}
        ReportDateValues ==
            {Absent, None, PyStr(<<>>), PyInt(5), PyDate(2024, 1, 2),
             PyDateTime(2024, 1, 2, 3, 4, 5),
             PyStr(<<"2", "0", "2", "4", "-", "0", "2", "-", "2", "9">>),
             PyStr(<<"2", "0", "2", "3", "-", "0", "2", "-", "2", "9">>),
             PyStr(<<"b", "a", "d">>)}
        IdentifierValues == {Absent, None, PyStr(<<" ">>), PyStr(<<" ", "s", " ">>)}
        SpecimenElements ==
            {SpecimenDict(i, Absent, Absent) : i \in IdentifierValues}
            \cup {SpecimenDict(i, PyStr(<<" ", "d", " ">>), PyStr(<<" ", "m", " ">>)) :
                    i \in IdentifierValues}
            \cup {SpecimenDict(i, PyStr(<<"d">>), PyStr(<<" ">>)) : i \in IdentifierValues}
            \cup {PyInt(3)}
        SpecimensValues ==
            {Absent, None, PyInt(0), PyInt(5), PyStr(<<>>), PyStr(<<"a", "b">>)}
            \cup {PyList(l) :
                    l \in UNION {[1..n -> SpecimenElements] : n \in 0..MaxSpecimens}}
    IN {None, PyList(<<>>), PyStr(<<"p">>)}
       \cup {PayloadDict(pid, h, rd, sp) :
               pid \in PatientIdValues, h \in ClinicalHistoryValues,
               rd \in ReportDateValues, sp \in SpecimensValues}
Todays == {PyDate(2024, 2, 29), PyDate(2025, 12, 31)}

NoResult == [raised |-> FALSE, ok |-> FALSE, context |-> None, errors |-> <<>>]

\* validate_context is not called in the ContextWindow specification.
VCIdle ==
    /\ vc_pc = "idle"
    /\ payload = None
    /\ today = PyDate(2024, 2, 29)
    /\ vc_result = NoResult
    /\ vc_dump = None
    /\ vc_result2 = NoResult
    /\ vc_dump2 = None

VCInit ==
    /\ vc_pc = "start"
    /\ payload \in Payloads
    /\ today \in Todays
    /\ vc_result = NoResult
    /\ vc_dump = None
    /\ vc_result2 = NoResult
    /\ vc_dump2 = None

\* ok, context, errors = validate_context(payload)
Validate ==
    /\ vc_pc = "start"
    /\ vc_result' = ValidateContext(payload, today)
    /\ vc_pc' = IF ValidateContext(payload, today).raised THEN "raised" ELSE "returned"
    /\ UNCHANGED <<payload, today, vc_dump, vc_result2, vc_dump2>>

(***************************************************************************)
(* dcis_resection_model.py: the pydantic form model                        *)
(*                                                                         *)
(* A validation yields the list of errors (each with the field path) and,  *)
(* when the list is empty, the typed record.  Keys a model does not        *)
(* declare are ignored.                                                    *)
(*                                                                         *)
(* The statements of the module are taken one by one.  A class statement   *)
(* that declares a List[...] attribute with Field(discriminator="kind")    *)
(* raises TypeError when pydantic builds the class ("The core schema type  *)
(* 'list' is not a valid discriminated union variant"): TumorSection       *)
(* (line 169) is the first, so `import dcis_resection_model` raises there  *)
(* and DCISResection is never reached.  A class or union whose statements  *)
(* do run validates as declared.                                           *)
(***************************************************************************)
PyFloat(i) == [t |-> "float", x |-> i]

Valid(v) == [errs |-> <<>>, value |-> v]
Invalid(type) == [errs |-> << [loc |-> <<>>, type |-> type] >>, value |-> None]
\* The class statement of class cls raises TypeError: no validation takes place.
TypeErrorAt(cls) == [errs |-> <<>>, value |-> None, raised |-> "TypeError", class |-> cls]
IsRaised(r) == "raised" \in DOMAIN r
\* Errors of a field are reported under the field's name.
At(name, r) ==
    [errs |-> [i \in 1..Len(r.errs) |->
                  [loc |-> <<name>> \o r.errs[i].loc, type |-> r.errs[i].type]],
     value |-> r.value]

RECURSIVE DecimalValue(_, _)
\* Value of a string of decimal digits, most significant first.
DecimalValue(s, acc) ==
    IF s = <<>> THEN acc ELSE DecimalValue(Tail(s), acc * 10 + DigitVal(Head(s)))

IsDecimal(s) == s # <<>> /\ \A i \in 1..Len(s) : IsDigit(s[i])

\* A field declared float: numbers and numeric strings become a float.
FloatField(v) ==
    CASE v.t = "float" -> Valid(v)
      [] v.t = "int" -> Valid(PyFloat(v.n))
      [] v.t = "str" -> IF IsDecimal(v.s) THEN Valid(PyFloat(DecimalValue(v.s, 0)))
                        ELSE Invalid("float_parsing")
      [] v.t = "absent" -> Invalid("missing")
      [] OTHER -> Invalid("float_type")

\* A field declared int with ge/le bounds.
IntField(v, ge, le) ==
    LET bounded(i) == IF i < ge THEN Invalid("greater_than_equal")
                      ELSE IF i > le THEN Invalid("less_than_equal")
                      ELSE Valid(PyInt(i))
    IN CASE v.t = "int" -> bounded(v.n)
         [] v.t = "float" -> bounded(v.x)
         [] v.t = "str" -> IF IsDecimal(v.s) THEN bounded(DecimalValue(v.s, 0))
                           ELSE Invalid("int_parsing")
         [] v.t = "absent" -> Invalid("missing")
         [] OTHER -> Invalid("int_type")

\* A field declared str.
StrField(v) ==
    CASE v.t = "str" -> Valid(v)
      [] v.t = "absent" -> Invalid("missing")
      [] OTHER -> Invalid("string_type")

\* A field declared Literal[...].
LiteralField(v, allowed) ==
    IF v.t = "absent" THEN Invalid("missing")
    ELSE IF v.t = "str" /\ v.s \in allowed THEN Valid(v)
    ELSE Invalid("literal_error")

\* Optional[...] = None around a field validation r of a present value.
OptionalField(v, r) == IF v.t \in {"absent", "none"} THEN Valid(None) ELSE r

\* Errors of all the fields of one model, in declaration order.
RECURSIVE AllErrs(_)
AllErrs(rs) == IF rs = <<>> THEN <<>> ELSE Head(rs).errs \o AllErrs(Tail(rs))

ProcedureOtherKind == "Other (specify) (5296.100004300)"
ProcedureSimpleKinds ==
    {"Excision (less than total mastectomy) (38394.100004300)",
     "Total mastectomy (including nipple-sparing and skin-sparing mastectomy) (48903.100004300)",
     "Not specified (5299.100004300)"}
SpecimenLateralityValues ==
    {"Right (5423.100004300)", "Left (5424.100004300)", "Not specified (5427.100004300)"}
SizeExtentEstimatedKind ==
    "Estimated size (extent) of DCIS is at least in Millimeters (mm) (58329.100004300)"
SizeExtentCannotDetermineKind == "Cannot be determined (50300.100004300)"

ProcedureDict(kind, specification) ==
    [t |-> "dict", kind |-> kind, specification |-> specification]
SpecimenSectionDict(procedure, specimen_laterality) ==
    [t |-> "dict", procedure |-> procedure, specimen_laterality |-> specimen_laterality]
SizeExtentDict(kind, minimum_extent_mm, dim1, dim2, explanation) ==
    [t |-> "dict", kind |-> kind, minimum_extent_mm |-> minimum_extent_mm,
     additional_dimension_mm_1 |-> dim1, additional_dimension_mm_2 |-> dim2,
     explanation |-> explanation]
\* The tumor section; rest stands for the seven attributes not detailed here.
TumorSectionDict(size_extent, number_of_blocks_examined, rest) ==
    [t |-> "dict", tumor_site |-> rest, histologic_type |-> rest,
     size_extent |-> size_extent, number_of_blocks_with_dcis |-> rest,
     number_of_blocks_examined |-> number_of_blocks_examined,
     architectural_patterns |-> rest, nuclear_grade |-> rest, necrosis |-> rest,
     microcalcifications |-> rest]
CommentsSectionDict(comments) == [t |-> "dict", comments |-> comments]
\* The root; rest stands for the six sections not detailed here.
DCISResectionDict(specimen, tumor, comments, rest) ==
    [t |-> "dict", specimen |-> specimen, tumor |-> tumor, margins |-> rest,
     regional_lymph_nodes |-> rest, distant_metastasis |-> rest,
     pathologic_stage |-> rest, additional_findings |-> rest,
     special_studies |-> rest, comments |-> comments]

\* ProcedureSelection, discriminated by kind; the errors of the selected
\* variant are reported under its tag.
ProcedureSelection(v) ==
    IF v.t # "dict" THEN Invalid("model_attributes_type")
    ELSE IF v.kind.t = "absent" THEN Invalid("union_tag_not_found")
    ELSE IF v.kind.t = "str" /\ v.kind.s \in ProcedureSimpleKinds
         THEN Valid([model |-> "Procedure", kind |-> v.kind, specification |-> Absent])
    ELSE IF v.kind = PyStr(ProcedureOtherKind)
         THEN LET specification == At(ProcedureOtherKind,
                                      At("specification", StrField(v.specification))) IN
              IF specification.errs # <<>> THEN specification
              ELSE Valid([model |-> "Procedure", kind |-> v.kind,
                          specification |-> specification.value])
    ELSE Invalid("union_tag_invalid")

\* SpecimenSection
SpecimenSection(v) ==
    IF v.t # "dict" THEN Invalid("model_type")
    ELSE LET procedure == At("procedure", OptionalField(v.procedure, ProcedureSelection(v.procedure)))
             laterality == At("specimen_laterality",
                              OptionalField(v.specimen_laterality,
                                  LiteralField(v.specimen_laterality, SpecimenLateralityValues)))
             errs == AllErrs(<<procedure, laterality>>)
         IN IF errs # <<>> THEN [errs |-> errs, value |-> None]
            ELSE Valid([model |-> "SpecimenSection", procedure |-> procedure.value,
                        specimen_laterality |-> laterality.value])

\* SizeExtentEstimated
SizeExtentEstimated(v) ==
    LET minimum == At("minimum_extent_mm", FloatField(v.minimum_extent_mm))
        dim1 == At("additional_dimension_mm_1",
                   OptionalField(v.additional_dimension_mm_1, FloatField(v.additional_dimension_mm_1)))
        dim2 == At("additional_dimension_mm_2",
                   OptionalField(v.additional_dimension_mm_2, FloatField(v.additional_dimension_mm_2)))
        errs == AllErrs(<<minimum, dim1, dim2>>)
    IN IF errs # <<>> THEN [errs |-> errs, value |-> None]
       ELSE Valid([model |-> "SizeExtentEstimated", kind |-> v.kind,
                   minimum_extent_mm |-> minimum.value,
                   additional_dimension_mm_1 |-> dim1.value,
                   additional_dimension_mm_2 |-> dim2.value])

\* SizeExtentCannotDetermine
SizeExtentCannotDetermine(v) ==
    LET explanation == At("explanation", OptionalField(v.explanation, StrField(v.explanation))) IN
    IF explanation.errs # <<>> THEN explanation
    ELSE Valid([model |-> "SizeExtentCannotDetermine", kind |-> v.kind,
                explanation |-> explanation.value])

\* SizeExtentSelection, discriminated by kind; the errors of the selected
\* variant are reported under its tag.
SizeExtentSelection(v) ==
    IF v.t # "dict" THEN Invalid("model_attributes_type")
    ELSE IF v.kind.t = "absent" THEN Invalid("union_tag_not_found")
    ELSE IF v.kind = PyStr(SizeExtentEstimatedKind)
         THEN At(SizeExtentEstimatedKind, SizeExtentEstimated(v))
    ELSE IF v.kind = PyStr(SizeExtentCannotDetermineKind)
         THEN At(SizeExtentCannotDetermineKind, SizeExtentCannotDetermine(v))
    ELSE Invalid("union_tag_invalid")

\* TumorSection: tumor_site, architectural_patterns and microcalcifications
\* are Optional[List[...Selection]] = Field(default=None, discriminator="kind"),
\* so the class statement raises and there is no class to validate v with.
TumorSection(v) == TypeErrorAt("TumorSection")

\* import dcis_resection_model: the module's statements run in order, and the
\* first class statement that raises, TumorSection's, ends the import.
ImportModule == TypeErrorAt("TumorSection")

\* CommentsSection
CommentsSection(v) ==
    IF v.t # "dict" THEN Invalid("model_type")
    ELSE LET comments == At("comments", OptionalField(v.comments, StrField(v.comments))) IN
         IF comments.errs # <<>> THEN comments
         ELSE Valid([model |-> "CommentsSection", comments |-> comments.value])

\* import dcis_resection_model as schema, then
\* schema.DCISResection.model_validate(payload) / parse_obj(payload): the
\* import raises at the class statement of TumorSection, whatever the payload.
DCISResection(v) == TumorSection(v)

\* model_dump() / dict() of each model: every declared attribute is emitted,
\* nested models become mappings.
DumpProcedure(m) ==
    IF m = None THEN None ELSE ProcedureDict(m.kind, m.specification)
DumpSpecimenSection(m) ==
    IF m = None THEN None
    ELSE SpecimenSectionDict(DumpProcedure(m.procedure), m.specimen_laterality)
DumpSizeExtent(m) ==
    IF m = None THEN None
    ELSE IF m.model = "SizeExtentEstimated"
         THEN SizeExtentDict(m.kind, m.minimum_extent_mm, m.additional_dimension_mm_1,
                             m.additional_dimension_mm_2, Absent)
         ELSE SizeExtentDict(m.kind, Absent, Absent, Absent, m.explanation)
DumpCommentsSection(m) ==
    IF m = None THEN None ELSE CommentsSectionDict(m.comments)

(***************************************************************************)
(* Payloads given to the form model                                        *)
(***************************************************************************)
BogusKind == "Exact distance (350819.100004300)"
Chars5 == <<"5">>
\* Every combination of the payloads of the three sections detailed here.
FormPayloads ==
    LET ProcedurePayloads ==
            {Absent, None}
            \cup {ProcedureDict(k, sp) :
                    k \in {PyStr("Excision (less than total mastectomy) (38394.100004300)"),
                           PyStr(ProcedureOtherKind), PyStr(BogusKind)},
                    sp \in {Absent, PyStr(<<"x">>)}}
        SpecimenSectionPayloads ==
            {Absent, None}
            \cup {SpecimenSectionDict(pr, lat) :
                    pr \in ProcedurePayloads,
                    lat \in {Absent, PyStr("Right (5423.100004300)")}}
        SizeExtentPayloads ==
            {Absent, None, PyStr(<<"x">>)}
            \cup {SizeExtentDict(k, mm, d1, Absent, ex) :
                    k \in {Absent, PyStr(SizeExtentEstimatedKind),
                           PyStr(SizeExtentCannotDetermineKind), PyStr(BogusKind)},
                    mm \in {Absent, None, PyFloat(5), PyInt(5), PyInt(0), PyStr(Chars5),
                            PyStr(<<"x">>)},
                    d1 \in {Absent, PyInt(2)},
                    ex \in {Absent, None, PyStr(<<"w", "h", "y">>)}}
        TumorSectionPayloads ==
            {Absent, None}
            \cup {TumorSectionDict(se, nb, Absent) :
                    se \in SizeExtentPayloads,
                    nb \in {Absent, PyInt(0), PyInt(101), PyFloat(100), PyStr(<<"x">>)}}
        CommentsSectionPayloads ==
            {Absent, None, CommentsSectionDict(PyStr(<<"c">>))}
    IN {DCISResectionDict(sp, tu, co, rest) :
           sp \in SpecimenSectionPayloads, tu \in TumorSectionPayloads,
           co \in CommentsSectionPayloads, rest \in {Absent, None}}

NoModel == [errs |-> <<>>, value |-> None]

\* The form model is not used in the other specifications.
FormIdle ==
    /\ form_pc = "idle"
    /\ form_payload = None
    /\ form_model = NoModel

FormInit ==
    /\ form_pc = "start"
    /\ form_payload \in FormPayloads
    /\ form_model = NoModel

\* import dcis_resection_model as schema
\* model = schema.DCISResection.model_validate(payload)
FormValidate ==
    /\ form_pc = "start"
    /\ form_model' = DCISResection(form_payload)
    /\ form_pc' = IF IsRaised(DCISResection(form_payload)) THEN "raised"
                  ELSE IF DCISResection(form_payload).errs = <<>> THEN "validated"
                  ELSE "rejected"
    /\ UNCHANGED form_payload

(***************************************************************************)
(* dcis_resection_model.py: every selection union, as a table of variants  *)
(***************************************************************************)
\* The variants of the union named u: each model class with
\* its kind tags and its other attributes in declaration order.  An
\* attribute is declared by its type, its bounds, the union it refers to and
\* whether it is Optional[...] = None.
SelectionVariants(u) ==
    LET Attr(name, type, ge, le, ref, allowed) ==
            [name |-> name, type |-> type, optional |-> FALSE, ge |-> ge, le |-> le,
             ref |-> ref, allowed |-> allowed]
        \* name: float
        FloatAttr(name) == Attr(name, "float", 0, 0, "", {})
        \* name: str
        StrAttr(name) == Attr(name, "str", 0, 0, "", {})
        \* name: int = Field(..., ge=ge, le=le)
        IntAttr(name, ge, le) == Attr(name, "int", ge, le, "", {})
        \* name: Literal[allowed]
        LiteralAttr(name, allowed) == Attr(name, "literal", 0, 0, "", allowed)
        \* name: List[Literal[allowed]] = Field(..., min_items=1)
        LiteralListAttr(name, allowed) == Attr(name, "literal_list", 0, 0, "", allowed)
        \* name: <union> = Field(discriminator="kind")
        UnionAttr(name, ref) == Attr(name, "union", 0, 0, ref, {})
        \* name: Optional[...] = None
        OptionalAttr(a) == [a EXCEPT !.optional = TRUE]
        Variant(model, kinds, fields) ==
            [model |-> model, kinds |-> kinds, fields |-> fields, built |-> TRUE]
        \* A class declaring name: Optional[List[<union>]] =
        \* Field(default=None, discriminator="kind"): the class statement
        \* raises TypeError, so there is no model and no attribute to validate.
        UnbuiltVariant(model, kinds) ==
            [model |-> model, kinds |-> kinds, fields |-> <<>>, built |-> FALSE]
    IN CASE u = "ProcedureSelection" ->   \* lines 14-38
          <<Variant("ProcedureExcision",
                      {"Excision (less than total mastectomy) (38394.100004300)"},
                      <<>>),
                Variant("ProcedureTotalMastectomy",
                      {"Total mastectomy (including nipple-sparing and skin-sparing mastectomy) (48903.100004300)"},
                      <<>>),
                Variant("ProcedureOther",
                      {"Other (specify) (5296.100004300)"},
                      <<StrAttr("specification")>>),
                Variant("ProcedureNotSpecified",
                      {"Not specified (5299.100004300)"},
                      <<>>)>>
      [] u = "TumorSiteSelection" ->   \* lines 59-108
          <<Variant("TumorSiteSimple",
                      {"Upper outer quadrant (5432.100004300)",
                       "Lower outer quadrant (5433.100004300)",
                       "Upper inner quadrant (5434.100004300)",
                       "Lower inner quadrant (5437.100004300)",
                       "Central (5438.100004300)",
                       "Nipple (5439.100004300)",
                       "Not specified (5450.100004300)"},
                      <<>>),
                Variant("TumorSiteClockPosition",
                      {"Clock position (42527.100004300)"},
                      <<LiteralListAttr("clock_positions",
                              {"1 o'clock (6659.100004300)",
                               "2 o'clock (6660.100004300)",
                               "3 o'clock (6665.100004300)",
                               "4 o'clock (6682.100004300)",
                               "5 o'clock (6697.100004300)",
                               "6 o'clock (6713.100004300)",
                               "7 o'clock (6714.100004300)",
                               "8 o'clock (6715.100004300)",
                               "9 o'clock (6716.100004300)",
                               "10 o'clock (6717.100004300)",
                               "11 o'clock (6718.100004300)",
                               "12 o'clock (6719.100004300)"})>>),
                Variant("TumorSiteDistanceFromNipple",
                      {"Specify distance from nipple in Centimeters (cm) (51229.100004300)"},
                      <<FloatAttr("distance_cm")>>),
                Variant("TumorSiteOther",
                      {"Other (specify) (5444.100004300)"},
                      <<StrAttr("description")>>)>>
      [] u = "SizeExtentSelection" ->   \* lines 111-125
          <<Variant("SizeExtentEstimated",
                      {"Estimated size (extent) of DCIS is at least in Millimeters (mm) (58329.100004300)"},
                      <<FloatAttr("minimum_extent_mm"),
                        OptionalAttr(FloatAttr("additional_dimension_mm_1")),
                        OptionalAttr(FloatAttr("additional_dimension_mm_2"))>>),
                Variant("SizeExtentCannotDetermine",
                      {"Cannot be determined (50300.100004300)"},
                      <<OptionalAttr(StrAttr("explanation"))>>)>>
      [] u = "ArchitecturalPatternSelection" ->   \* lines 128-147
          <<Variant("ArchitecturalPatternSimple",
                      {"Comedo (5497.100004300)",
                       "Paget disease (DCIS involving nipple skin) (5498.100004300)",
                       "Cribriform (5499.100004300)",
                       "Micropapillary (5506.100004300)",
                       "Papillary (5510.100004300)",
                       "Solid (5522.100004300)"},
                      <<>>),
                Variant("ArchitecturalPatternOther",
                      {"Other (specify) (5524.100004300)"},
                      <<StrAttr("description")>>)>>
      [] u = "MicrocalcificationSelection" ->   \* lines 150-166
          <<Variant("MicrocalcificationSimple",
                      {"Not identified (5776.100004300)",
                       "Present in DCIS (5777.100004300)",
                       "Present in nonneoplastic tissue (5825.100004300)"},
                      <<>>),
                Variant("MicrocalcificationOther",
                      {"Other (specify) (38432.100004300)"},
                      <<StrAttr("description")>>)>>
      [] u = "ClosestMarginDistanceSelection" ->   \* lines 213-244
          <<Variant("ClosestMarginDistanceExact",
                      {"Exact distance (350819.100004300)"},
                      <<FloatAttr("millimeters")>>),
                Variant("ClosestMarginDistanceLessThan",
                      {"Less than (350822.100004300)"},
                      <<FloatAttr("millimeters")>>),
                Variant("ClosestMarginDistanceGreaterThan",
                      {"Greater than (350820.100004300)"},
                      <<FloatAttr("millimeters")>>),
                Variant("ClosestMarginDistanceOther",
                      {"Other (specify) (350816.100004300)"},
                      <<StrAttr("description")>>),
                Variant("ClosestMarginDistanceCannotDetermine",
                      {"Cannot be determined (explain) (350817.100004300)"},
                      <<StrAttr("explanation")>>)>>
      [] u = "ClosestMarginSelection" ->   \* lines 247-273
          <<Variant("ClosestMarginSimple",
                      {"?Not applicable (45701.100004300)",
                       "Anterior (26979.100004300)",
                       "Posterior (26980.100004300)",
                       "Superior (26981.100004300)",
                       "Inferior (26982.100004300)",
                       "Medial (26983.100004300)",
                       "Lateral (26984.100004300)"},
                      <<>>),
                Variant("ClosestMarginOther",
                      {"Other (specify) (26985.100004300)"},
                      <<StrAttr("description")>>),
                Variant("ClosestMarginCannotDetermine",
                      {"Cannot be determined (explain) (58062.100004300)"},
                      <<StrAttr("explanation")>>)>>
      [] u = "MarginStatusSelection" ->   \* lines 293-330
          <<UnbuiltVariant("MarginStatusAllNegative",
                      {"All margins negative for DCIS (350811.100004300)"}),
                UnbuiltVariant("MarginStatusPresent",
                      {"DCIS present at margin (350823.100004300)"}),
                Variant("MarginStatusOther",
                      {"Other (specify) (350834.100004300)"},
                      <<StrAttr("description")>>),
                Variant("MarginStatusCannotDetermine",
                      {"Cannot be determined (explain) (350835.100004300)"},
                      <<StrAttr("explanation")>>),
                Variant("MarginStatusNotApplicable",
                      {"Not applicable (no DCIS in specimen) (350836.100004300)"},
                      <<>>)>>
      [] u = "AnteriorMarginDistanceSelection" ->   \* lines 333-364
          <<Variant("AnteriorMarginDistanceExact",
                      {"Exact distance (350841.100004300)"},
                      <<FloatAttr("millimeters")>>),
                Variant("AnteriorMarginDistanceLessThan",
                      {"Less than (350843.100004300)"},
                      <<FloatAttr("millimeters")>>),
                Variant("AnteriorMarginDistanceGreaterThan",
                      {"Greater than (350842.100004300)"},
                      <<FloatAttr("millimeters")>>),
                Variant("AnteriorMarginDistanceOther",
                      {"Other (specify) (350838.100004300)"},
                      <<StrAttr("description")>>),
                Variant("AnteriorMarginDistanceCannotDetermine",
                      {"Cannot be determined (explain) (350839.100004300)"},
                      <<StrAttr("explanation")>>)>>
      [] u = "PosteriorMarginDistanceSelection" ->   \* lines 367-398
          <<Variant("PosteriorMarginDistanceExact",
                      {"Exact distance (350848.100004300)"},
                      <<FloatAttr("millimeters")>>),
                Variant("PosteriorMarginDistanceLessThan",
                      {"Less than (350850.100004300)"},
                      <<FloatAttr("millimeters")>>),
                Variant("PosteriorMarginDistanceGreaterThan",
                      {"Greater than (350849.100004300)"},
                      <<FloatAttr("millimeters")>>),
                Variant("PosteriorMarginDistanceOther",
                      {"Other (specify) (350845.100004300)"},
                      <<StrAttr("description")>>),
                Variant("PosteriorMarginDistanceCannotDetermine",
                      {"Cannot be determined (explain) (350846.100004300)"},
                      <<StrAttr("explanation")>>)>>
      [] u = "SuperiorMarginDistanceSelection" ->   \* lines 401-432
          <<Variant("SuperiorMarginDistanceExact",
                      {"Exact distance (350855.100004300)"},
                      <<FloatAttr("millimeters")>>),
                Variant("SuperiorMarginDistanceLessThan",
                      {"Less than (350857.100004300)"},
                      <<FloatAttr("millimeters")>>),
                Variant("SuperiorMarginDistanceGreaterThan",
                      {"Greater than (350856.100004300)"},
                      <<FloatAttr("millimeters")>>),
                Variant("SuperiorMarginDistanceOther",
                      {"Other (specify) (350852.100004300)"},
                      <<StrAttr("description")>>),
                Variant("SuperiorMarginDistanceCannotDetermine",
                      {"Cannot be determined (explain) (350853.100004300)"},
                      <<StrAttr("explanation")>>)>>
      [] u = "InferiorMarginDistanceSelection" ->   \* lines 435-466
          <<Variant("InferiorMarginDistanceExact",
                      {"Exact distance (350862.100004300)"},
                      <<FloatAttr("millimeters")>>),
                Variant("InferiorMarginDistanceLessThan",
                      {"Less than (350864.100004300)"},
                      <<FloatAttr("millimeters")>>),
                Variant("InferiorMarginDistanceGreaterThan",
                      {"Greater than (350863.100004300)"},
                      <<FloatAttr("millimeters")>>),
                Variant("InferiorMarginDistanceOther",
                      {"Other (specify) (350859.100004300)"},
                      <<StrAttr("description")>>),
                Variant("InferiorMarginDistanceCannotDetermine",
                      {"Cannot be determined (explain) (350860.100004300)"},
                      <<StrAttr("explanation")>>)>>
      [] u = "MedialMarginDistanceSelection" ->   \* lines 469-500
          <<Variant("MedialMarginDistanceExact",
                      {"Exact distance (350869.100004300)"},
                      <<FloatAttr("millimeters")>>),
                Variant("MedialMarginDistanceLessThan",
                      {"Less than (350871.100004300)"},
                      <<FloatAttr("millimeters")>>),
                Variant("MedialMarginDistanceGreaterThan",
                      {"Greater than (350870.100004300)"},
                      <<FloatAttr("millimeters")>>),
                Variant("MedialMarginDistanceOther",
                      {"Other (specify) (350866.100004300)"},
                      <<StrAttr("description")>>),
                Variant("MedialMarginDistanceCannotDetermine",
                      {"Cannot be determined (explain) (350867.100004300)"},
                      <<StrAttr("explanation")>>)>>
      [] u = "LateralMarginDistanceSelection" ->   \* lines 503-534
          <<Variant("LateralMarginDistanceExact",
                      {"Exact distance (350876.100004300)"},
                      <<FloatAttr("millimeters")>>),
                Variant("LateralMarginDistanceLessThan",
                      {"Less than (350878.100004300)"},
                      <<FloatAttr("millimeters")>>),
                Variant("LateralMarginDistanceGreaterThan",
                      {"Greater than (350877.100004300)"},
                      <<FloatAttr("millimeters")>>),
                Variant("LateralMarginDistanceOther",
                      {"Other (specify) (350873.100004300)"},
                      <<StrAttr("description")>>),
                Variant("LateralMarginDistanceCannotDetermine",
                      {"Cannot be determined (explain) (350874.100004300)"},
                      <<StrAttr("explanation")>>)>>
      [] u = "OtherMarginDistanceSelection" ->   \* lines 537-550
          <<Variant("OtherMarginDistanceSpecified",
                      {"Other margin(s) and distance(s) (specify) (350880.100004300)"},
                      <<StrAttr("detail")>>),
                Variant("OtherMarginDistanceCannotDetermine",
                      {"Cannot be determined (explain) (352293.100004300)"},
                      <<StrAttr("explanation")>>)>>
      [] u = "MacrometastasisCountSelection" ->   \* lines 586-611
          <<Variant("MacrometastasisCountExact",
                      {"Exact number (specify) (44655.100004300)"},
                      <<IntAttr("count", 0, 100)>>),
                Variant("MacrometastasisCountAtLeast",
                      {"At least (specify) (46862.100004300)"},
                      <<IntAttr("count", 1, 100)>>),
                Variant("MacrometastasisCountOther",
                      {"Other (specify) (350893.100004300)"},
                      <<StrAttr("description")>>),
                Variant("MacrometastasisCountCannotDetermine",
                      {"Cannot be determined (explain) (44824.100004300)"},
                      <<StrAttr("explanation")>>)>>
      [] u = "MicrometastasisCountSelection" ->   \* lines 614-639
          <<Variant("MicrometastasisCountExact",
                      {"Exact number (specify) (58873.100004300)"},
                      <<IntAttr("count", 0, 100)>>),
                Variant("MicrometastasisCountAtLeast",
                      {"At least (specify) (55415.100004300)"},
                      <<IntAttr("count", 1, 100)>>),
                Variant("MicrometastasisCountOther",
                      {"Other (specify) (350894.100004300)"},
                      <<StrAttr("description")>>),
                Variant("MicrometastasisCountCannotDetermine",
                      {"Cannot be determined (explain) (46991.100004300)"},
                      <<StrAttr("explanation")>>)>>
      [] u = "IsolatedTumorCellCountSelection" ->   \* lines 642-672
          <<Variant("IsolatedTumorCellsNotApplicable",
                      {"?Not applicable (52647.100004300)"},
                      <<>>),
                Variant("IsolatedTumorCellsExact",
                      {"Exact number (specify) (51319.100004300)"},
                      <<IntAttr("count", 0, 100)>>),
                Variant("IsolatedTumorCellsAtLeast",
                      {"At least (specify) (57579.100004300)"},
                      <<IntAttr("count", 1, 100)>>),
                Variant("IsolatedTumorCellsOther",
                      {"Other (specify) (350895.100004300)"},
                      <<StrAttr("description")>>),
                Variant("IsolatedTumorCellsCannotDetermine",
                      {"Cannot be determined (explain) (48966.100004300)"},
                      <<StrAttr("explanation")>>)>>
      [] u = "NodalDepositSelection" ->   \* lines 675-706
          <<Variant("NodalDepositExact",
                      {"Exact size (40874.100004300)"},
                      <<FloatAttr("millimeters")>>),
                Variant("NodalDepositLessThan",
                      {"Less than (351430.100004300)"},
                      <<FloatAttr("millimeters")>>),
                Variant("NodalDepositGreaterThan",
                      {"Greater than (351431.100004300)"},
                      <<FloatAttr("millimeters")>>),
                Variant("NodalDepositOther",
                      {"Other (specify) (351432.100004300)"},
                      <<StrAttr("description")>>),
                Variant("NodalDepositCannotDetermine",
                      {"Cannot be determined (explain) (55601.100004300)"},
                      <<StrAttr("explanation")>>)>>
      [] u = "TotalNodesSelection" ->   \* lines 709-734
          <<Variant("TotalNodesExact",
                      {"Exact number (specify) (350901.100004300)"},
                      <<IntAttr("count", 0, 100)>>),
                Variant("TotalNodesAtLeast",
                      {"At least (specify) (350903.100004300)"},
                      <<IntAttr("count", 1, 100)>>),
                Variant("TotalNodesOther",
                      {"Other (specify) (350905.100004300)"},
                      <<StrAttr("description")>>),
                Variant("TotalNodesCannotDetermine",
                      {"Cannot be determined (explain) (350904.100004300)"},
                      <<StrAttr("explanation")>>)>>
      [] u = "SentinelNodesSelection" ->   \* lines 737-767
          <<Variant("SentinelNodesNotApplicable",
                      {"?Not applicable (350911.100004300)"},
                      <<>>),
                Variant("SentinelNodesExact",
                      {"Exact number (specify) (350906.100004300)"},
                      <<IntAttr("count", 0, 100)>>),
                Variant("SentinelNodesAtLeast",
                      {"At least (specify) (350908.100004300)"},
                      <<IntAttr("count", 1, 100)>>),
                Variant("SentinelNodesOther",
                      {"Other (specify) (350910.100004300)"},
                      <<StrAttr("description")>>),
                Variant("SentinelNodesCannotDetermine",
                      {"Cannot be determined (explain) (350909.100004300)"},
                      <<StrAttr("explanation")>>)>>
      [] u = "RegionalLymphNodesFindingsSelection" ->   \* lines 770-814
          <<Variant("RegionalLymphNodesNegative",
                      {"All regional lymph nodes negative for tumor (350889.100004300)"},
                      <<>>),
                Variant("RegionalLymphNodesTumorPresent",
                      {"Tumor present in regional lymph node(s) (350890.100004300)"},
                      <<OptionalAttr(UnionAttr("macrometastases", "MacrometastasisCountSelection")),
                        OptionalAttr(UnionAttr("micrometastases", "MicrometastasisCountSelection")),
                        OptionalAttr(UnionAttr("isolated_tumor_cells", "IsolatedTumorCellCountSelection")),
                        OptionalAttr(UnionAttr("largest_metastatic_deposit", "NodalDepositSelection")),
                        OptionalAttr(LiteralAttr("extranodal_extension",
                              {"Not identified (56397.100004300)",
                               "Present, 2 mm or less (56915.100004300)",
                               "Present, greater than 2 mm (350900.100004300)",
                               "Present (351449.100004300)",
                               "Cannot be determined (351450.100004300)"}))>>),
                Variant("RegionalLymphNodesOther",
                      {"Other (specify) (350891.100004300)"},
                      <<StrAttr("description")>>),
                Variant("RegionalLymphNodesCannotDetermine",
                      {"Cannot be determined (explain) (350892.100004300)"},
                      <<StrAttr("explanation")>>)>>
      [] u = "RegionalLymphNodeStatusSelection" ->   \* lines 817-839
          <<Variant("RegionalLymphNodesNotApplicable",
                      {"Not applicable (no regional lymph nodes submitted or found) (350887.100004300)"},
                      <<>>),
                Variant("RegionalLymphNodesPresent",
                      {"Regional lymph nodes present (374352.100004300)"},
                      <<OptionalAttr(UnionAttr("findings", "RegionalLymphNodesFindingsSelection")),
                        OptionalAttr(UnionAttr("total_nodes_examined", "TotalNodesSelection")),
                        OptionalAttr(UnionAttr("sentinel_nodes_examined", "SentinelNodesSelection"))>>)>>
      [] u = "DistantSiteSelection" ->   \* lines 854-904
          <<Variant("DistantSiteNotApplicable",
                      {"?Not applicable (352355.100004300)"},
                      <<>>),
                Variant("DistantSiteNonRegionalNodes",
                      {"Non-regional lymph node(s) (specify, if possible) (352352.100004300)"},
                      <<OptionalAttr(StrAttr("detail"))>>),
                Variant("DistantSiteLung",
                      {"Lung (352349.100004300)"},
                      <<OptionalAttr(StrAttr("detail"))>>),
                Variant("DistantSiteLiver",
                      {"Liver (352350.100004300)"},
                      <<OptionalAttr(StrAttr("detail"))>>),
                Variant("DistantSiteBone",
                      {"Bone (352351.100004300)"},
                      <<OptionalAttr(StrAttr("detail"))>>),
                Variant("DistantSiteBrain",
                      {"Brain (352348.100004300)"},
                      <<OptionalAttr(StrAttr("detail"))>>),
                Variant("DistantSiteOther",
                      {"Other (specify) (352353.100004300)"},
                      <<StrAttr("detail")>>),
                Variant("DistantSiteCannotDetermine",
                      {"Cannot be determined (352354.100004300)"},
                      <<OptionalAttr(StrAttr("detail"))>>)>>
      [] u = "TNMDescriptorSelection" ->   \* lines 918-927
          <<Variant("TNMDescriptorNotApplicable",
                      {"?Not applicable (6391.100004300)"},
                      <<OptionalAttr(StrAttr("comment"))>>),
                Variant("TNMDescriptorRecurrent",
                      {"r (recurrent) (6392.100004300)"},
                      <<>>)>>
      [] u = "RegionalLymphNodesModifierSelection" ->   \* lines 930-950
          <<Variant("RegionalLymphNodesModifierNotApplicable",
                      {"?Not applicable (58417.100004300)"},
                      <<>>),
                Variant("RegionalLymphNodesModifierSN",
                      {"(sn): Sentinel node(s) evaluated. If 6 or more nodes (sentinel or nonsentinel) are removed, this modifier should not be used. (6403.100004300)"},
                      <<>>),
                Variant("RegionalLymphNodesModifierF",
                      {"(f): Nodal metastasis confirmed by fine needle aspiration or core needle biopsy. (54656.100004300)"},
                      <<>>)>>
      [] u = "PMCategorySelection" ->   \* lines 953-964
          <<Variant("PMCategoryNotApplicable",
                      {"?Not applicable - pM cannot be determined from the submitted specimen(s) (6431.100004300)"},
                      <<>>),
                Variant("PMCategoryM1",
                      {"pM1: Histologically proven metastases larger than 0.2 mm (6433.100004300)"},
                      <<OptionalAttr(StrAttr("case_number"))>>)>>
      [] u = "ERNuclearPositivitySelection" ->   \* lines 1017-1045
          <<Variant("ERNuclearPositivitySpecify",
                      {"Specify % (42853.100004300)"},
                      <<IntAttr("percentage", 0, 100)>>),
                Variant("ERNuclearPositivityOneToTen",
                      {"1-10% (specify)# (41293.100004300)"},
                      <<IntAttr("percentage", 1, 10)>>),
                Variant("ERNuclearPositivityRange",
                      {"11-20% (41296.100004300)",
                       "21-30% (41379.100004300)",
                       "31-40% (42868.100004300)",
                       "41-50% (42870.100004300)",
                       "51-60% (41385.100004300)",
                       "61-70% (42876.100004300)",
                       "71-80% (41302.100004300)",
                       "81-90% (42879.100004300)",
                       "91-100% (41388.100004300)"},
                      <<>>)>>
      [] u = "ERStatusSelection" ->   \* lines 1048-1067
          <<Variant("ERStatusPositive",
                      {"Positive (42845.100004300)"},
                      <<OptionalAttr(UnionAttr("nuclear_positivity", "ERNuclearPositivitySelection"))>>),
                Variant("ERStatusNegative",
                      {"Negative (42400.100004300)"},
                      <<>>),
                Variant("ERStatusCannotDetermine",
                      {"Cannot be determined (indeterminate) (58158.100004300)"},
                      <<>>)>>
      [] u = "PgRNuclearPositivitySelection" ->   \* lines 1070-1098
          <<Variant("PgRNuclearPositivitySpecify",
                      {"Specify % (41405.100004300)"},
                      <<IntAttr("percentage", 0, 100)>>),
                Variant("PgRNuclearPositivityOneToTen",
                      {"1-10% (specify)# (42893.100004300)"},
                      <<IntAttr("percentage", 1, 10)>>),
                Variant("PgRNuclearPositivityRange",
                      {"11-20% (41413.100004300)",
                       "21-30% (41777.100004300)",
                       "31-40% (41419.100004300)",
                       "41-50% (41428.100004300)",
                       "51-60% (41780.100004300)",
                       "61-70% (41445.100004300)",
                       "71-80% (41453.100004300)",
                       "81-90% (41454.100004300)",
                       "91-100% (42896.100004300)"},
                      <<>>)>>
      [] u = "PgRStatusSelection" ->   \* lines 1101-1120
          <<Variant("PgRStatusPositive",
                      {"Positive (41402.100004300)"},
                      <<OptionalAttr(UnionAttr("nuclear_positivity", "PgRNuclearPositivitySelection"))>>),
                Variant("PgRStatusNegative",
                      {"Negative (53779.100004300)"},
                      <<>>),
                Variant("PgRStatusCannotDetermine",
                      {"Cannot be determined (indeterminate) (58107.100004300)"},
                      <<>>)>>
      [] u = "BreastBiomarkerTestingSelection" ->   \* lines 1123-1140
          <<Variant("BiomarkerTestER",
                      {"Estrogen Receptor (ER) (52865.100004300)"},
                      <<OptionalAttr(UnionAttr("status", "ERStatusSelection"))>>),
                Variant("BiomarkerTestPgR",
                      {"Progesterone Receptor (PgR) (50432.100004300)"},
                      <<OptionalAttr(UnionAttr("status", "PgRStatusSelection"))>>)>>

\* Names of the discriminated unions of the form model.
SelectionUnions ==
    {"ProcedureSelection",
     "TumorSiteSelection",
     "SizeExtentSelection",
     "ArchitecturalPatternSelection",
     "MicrocalcificationSelection",
     "ClosestMarginDistanceSelection",
     "ClosestMarginSelection",
     "MarginStatusSelection",
     "AnteriorMarginDistanceSelection",
     "PosteriorMarginDistanceSelection",
     "SuperiorMarginDistanceSelection",
     "InferiorMarginDistanceSelection",
     "MedialMarginDistanceSelection",
     "LateralMarginDistanceSelection",
     "OtherMarginDistanceSelection",
     "MacrometastasisCountSelection",
     "MicrometastasisCountSelection",
     "IsolatedTumorCellCountSelection",
     "NodalDepositSelection",
     "TotalNodesSelection",
     "SentinelNodesSelection",
     "RegionalLymphNodesFindingsSelection",
     "RegionalLymphNodeStatusSelection",
     "DistantSiteSelection",
     "TNMDescriptorSelection",
     "RegionalLymphNodesModifierSelection",
     "PMCategorySelection",
     "ERNuclearPositivitySelection",
     "ERStatusSelection",
     "PgRNuclearPositivitySelection",
     "PgRStatusSelection",
     "BreastBiomarkerTestingSelection"}

\* mapping.get(key): Absent when the mapping has no such key
Item(v, key) == IF key \in DOMAIN v THEN v[key] ELSE Absent

\* All the kind tags of the union named u.
SelectionKinds(u) ==
    UNION {SelectionVariants(u)[i].kinds : i \in 1..Len(SelectionVariants(u))}

RECURSIVE ValidateSelection(_, _)
RECURSIVE ValidateAttr(_, _)
RECURSIVE ValidateItems(_, _, _)
RECURSIVE ValidateAttrs(_, _)

\* The items of a List[Literal[...]] attribute from position i on, each
\* under its index.
ValidateItems(a, items, i) ==
    IF i > Len(items) THEN <<>>
    ELSE << At(Digit(i - 1), LiteralField(items[i], a.allowed)) >>
         \o ValidateItems(a, items, i + 1)

\* One attribute of a variant, given the value v the payload has for it.
ValidateAttr(a, v) ==
    IF a.optional /\ v.t \in {"absent", "none"} THEN Valid(None)
    ELSE CASE a.type = "float" -> FloatField(v)
           [] a.type = "str" -> StrField(v)
           [] a.type = "int" -> IntField(v, a.ge, a.le)
           [] a.type = "literal" -> LiteralField(v, a.allowed)
           [] a.type = "union" ->
                IF v.t = "absent" THEN Invalid("missing") ELSE ValidateSelection(a.ref, v)
           [] a.type = "literal_list" ->
                IF v.t = "absent" THEN Invalid("missing")
                ELSE IF v.t # "list" THEN Invalid("list_type")
                ELSE IF v.l = <<>> THEN Invalid("too_short")
                ELSE LET rs == ValidateItems(a, v.l, 1) IN
                     IF AllErrs(rs) # <<>> THEN [errs |-> AllErrs(rs), value |-> None]
                     ELSE Valid(PyList([i \in 1..Len(rs) |-> rs[i].value]))

\* The attributes of a variant in declaration order, each under its name.
ValidateAttrs(fields, v) ==
    IF fields = <<>> THEN <<>>
    ELSE << At(Head(fields).name, ValidateAttr(Head(fields), Item(v, Head(fields).name))) >>
         \o ValidateAttrs(Tail(fields), v)

\* One variant model validated against the mapping v; a class whose
\* statement raised TypeError has no model to validate with.
ValidateVariant(variant, v) ==
    LET rs == ValidateAttrs(variant.fields, v) IN
    IF ~variant.built THEN TypeErrorAt(variant.model)
    ELSE IF AllErrs(rs) # <<>> THEN [errs |-> AllErrs(rs), value |-> None]
    ELSE Valid([model |-> variant.model, kind |-> Item(v, "kind"),
                attrs |-> [i \in 1..Len(rs) |-> rs[i].value]])

\* The variants whose kind: Literal[...] admits the payload's kind.
MatchingVariants(variants, kind) ==
    {i \in 1..Len(variants) : kind.t = "str" /\ kind.s \in variants[i].kinds}

\* The variants of the union named u whose class statement raises TypeError.
UnbuiltVariants(u) ==
    {i \in 1..Len(SelectionVariants(u)) : ~SelectionVariants(u)[i].built}

\* A value validated against the union named u, discriminated by kind as in
\* the fields declared with Field(discriminator="kind"); the errors of the
\* selected variant are reported under its tag.  A union with a variant
\* whose class statement raises cannot be built.
ValidateSelection(u, v) ==
    IF UnbuiltVariants(u) # {}
    THEN ValidateVariant(SelectionVariants(u)[CHOOSE i \in UnbuiltVariants(u) :
                                                 \A j \in UnbuiltVariants(u) : i <= j], v)
    ELSE IF v.t # "dict" THEN Invalid("model_attributes_type")
    ELSE LET variants == SelectionVariants(u)
             kind == Item(v, "kind")
             matching == MatchingVariants(variants, kind)
         IN IF kind.t = "absent" THEN Invalid("union_tag_not_found")
            ELSE IF matching = {} THEN Invalid("union_tag_invalid")
            ELSE At(kind.s, ValidateVariant(variants[CHOOSE i \in matching : TRUE], v))

(***************************************************************************)
(* Payloads given to a selection union                                     *)
(***************************************************************************)
\* A mapping with a kind and at most one other key; Absent leaves a key out.
SelectionDict(kind, name, value) ==
    [k \in {"t"} \cup (IF kind = Absent THEN {} ELSE {"kind"})
                 \cup (IF value = Absent THEN {} ELSE {name}) |->
        CASE k = "t" -> "dict"
          [] k = "kind" -> kind
          [] OTHER -> value]

\* Payloads for the union named u: non-mappings, a mapping with every kind
\* of the form model (or none) and nothing else, and a mapping with each
\* tag of u and one of the attributes the variants of u declare.  Free text
\* is a sequence of characters, a literal code an atomic string.
SelectionPayloads(u) ==
    LET attrs == UNION {{SelectionVariants(u)[i].fields[j] :
                            j \in 1..Len(SelectionVariants(u)[i].fields)} :
                        i \in 1..Len(SelectionVariants(u))}
        kinds == UNION {SelectionKinds(w) : w \in SelectionUnions}
        values(a) ==
            {None, PyInt(0), PyInt(5), PyInt(101), PyFloat(5), PyList(<<>>),
             PyList(<<PyStr("1 o'clock (6659.100004300)")>>),
             SelectionDict(PyStr("Exact distance (350819.100004300)"), "millimeters",
                           PyInt(2)),
             PyList(<<SelectionDict(PyStr("Other (specify) (26985.100004300)"),
                                    "description", None)>>)}
            \cup (IF a.type \in {"literal", "literal_list"}
                  THEN {PyStr("Present (351449.100004300)"),
                        PyStr("Exact distance (350819.100004300)")}
                  ELSE {PyStr(<<>>), PyStr(<<"x">>), PyStr(Chars5)})
    IN {None, PyStr(<<"x">>)}
       \cup {SelectionDict(kind, "millimeters", Absent) :
               kind \in {Absent, None} \cup {PyStr(k) : k \in kinds}}
       \cup UNION {{SelectionDict(PyStr(k), a.name, value) :
                      k \in SelectionKinds(u), value \in values(a)} : a \in attrs}

\* The selection unions are not validated on their own in the other
\* specifications.
SelIdle ==
    /\ sel_pc = "idle"
    /\ sel_union = ""
    /\ sel_payload = None
    /\ sel_result = NoModel

\* parse_obj_as(schema.<union>, payload) after import dcis_resection_model as
\* schema: the import comes first, and a module whose import raised has no
\* union to validate with.
ParseObjAs(u, v) ==
    IF IsRaised(ImportModule) THEN ImportModule ELSE ValidateSelection(u, v)

\* The test's two statements: the import raises TypeError at the class
\* statement of TumorSection, before any payload is looked at.
SelRaise ==
    /\ sel_pc = "start"
    /\ IsRaised(ParseObjAs(sel_union, sel_payload))
    /\ sel_result' = ParseObjAs(sel_union, sel_payload)
    /\ sel_pc' = "raised"
    /\ UNCHANGED <<sel_union, sel_payload>>

(***************************************************************************)
(* schemas.py (top level): the condensed pydantic v2 models                *)
(*                                                                         *)
(* A model validates its fields in declaration order.  A field that is not *)
(* supplied takes its default and neither its type nor its                 *)
(* @field_validator is applied; a supplied field is checked against its    *)
(* type and bounds and, when that succeeds, handed to its @field_validator *)
(* with info.data holding the fields validated before it.                  *)
(***************************************************************************)
PyBool(b) == [t |-> "bool", b |-> b]

\* A field declared with a str-valued Enum.
EnumField(v, members) ==
    IF v.t = "absent" THEN Invalid("missing")
    ELSE IF v.t = "str" /\ v.s \in members THEN Valid(v)
    ELSE Invalid("enum")

\* A field declared float with ge.
FloatGeField(v, ge) ==
    LET r == FloatField(v) IN
    IF r.errs = <<>> /\ r.value.x < ge THEN Invalid("greater_than_equal") ELSE r

\* A field declared int with ge.
IntGeField(v, ge) ==
    CASE v.t = "int" -> IF v.n < ge THEN Invalid("greater_than_equal") ELSE Valid(v)
      [] v.t = "float" -> IF v.x < ge THEN Invalid("greater_than_equal") ELSE Valid(PyInt(v.x))
      [] v.t = "str" -> IF IsDecimal(v.s) THEN Valid(PyInt(DecimalValue(v.s, 0)))
                        ELSE Invalid("int_parsing")
      [] v.t = "absent" -> Invalid("missing")
      [] OTHER -> Invalid("int_type")

\* info.data.get(name): the validated value of an earlier field, None when
\* that field failed.
InfoData(r) == IF r.errs = <<>> THEN r.value ELSE None

\* A field with a default and a @field_validator: core is the outcome of the
\* type check of the supplied value, validated that of the validator.
Field(v, default, core, validated) ==
    IF v.t = "absent" THEN Valid(default)
    ELSE IF core.errs # <<>> THEN core
    ELSE validated

DistanceRelation == {"exact", "less_than", "greater_than", "not_applicable", "cannot_be_determined"}
MarginStatus == {"negative", "positive"}
MarginFace ==
    {"superior", "inferior", "medial", "lateral", "anterior", "posterior", "deep", "superficial"}
RegionalNodeStatus == {"not_submitted", "negative", "positive", "not_assessed"}

DistanceMMArgs(relation, mm, note) ==
    [t |-> "dict", relation |-> relation, mm |-> mm, note |-> note]
SizeExtentArgs(estimated_size_mm, dim1, dim2, cannot_determine_note) ==
    [t |-> "dict", estimated_size_mm |-> estimated_size_mm,
     additional_dimension_mm_1 |-> dim1, additional_dimension_mm_2 |-> dim2,
     cannot_determine_note |-> cannot_determine_note]
MarginMeasurementArgs(face, distance) == [t |-> "dict", face |-> face, distance |-> distance]
PositiveMarginDetailArgs(face, involvement_description) ==
    [t |-> "dict", face |-> face, involvement_description |-> involvement_description]
MarginsArgs(status, negative_details, positive_details) ==
    [t |-> "dict", status |-> status, negative_details |-> negative_details,
     positive_details |-> positive_details]
RegionalNodesArgs(status, examined, positive, deposit, ene_present, ene_size) ==
    [t |-> "dict", status |-> status, nodes_examined |-> examined,
     nodes_positive |-> positive,
     largest_metastatic_deposit |-> deposit,
     extranodal_extension_present |-> ene_present,
     extranodal_extension_size |-> ene_size]

\* DistanceMM._require_mm_for_specific_relations
RequireMmForSpecificRelations(value, relation) ==
    IF relation \in {PyStr("exact"), PyStr("less_than"), PyStr("greater_than")} /\ value = None
    THEN Invalid("value_error")
    ELSE Valid(value)

\* DistanceMM(**kw)
DistanceMM(kw) ==
    IF kw.t # "dict" THEN Invalid("model_type")
    ELSE LET relation == At("relation", EnumField(kw.relation, DistanceRelation))
             mm_core == OptionalField(kw.mm, FloatGeField(kw.mm, 0))
             mm == At("mm", Field(kw.mm, None, mm_core,
                                  RequireMmForSpecificRelations(mm_core.value,
                                                                InfoData(relation))))
             note == At("note", OptionalField(kw.note, StrField(kw.note)))
             errs == AllErrs(<<relation, mm, note>>)
         IN IF errs # <<>> THEN [errs |-> errs, value |-> None]
            ELSE Valid([model |-> "DistanceMM", relation |-> relation.value,
                        mm |-> mm.value, note |-> note.value])

\* SizeExtent._require_estimate_or_note
RequireEstimateOrNote(value, estimated) ==
    IF estimated = None /\ ~Truthy(value) THEN Invalid("value_error") ELSE Valid(value)

\* SizeExtent(**kw)
SizeExtent(kw) ==
    IF kw.t # "dict" THEN Invalid("model_type")
    ELSE LET estimated == At("estimated_size_mm",
                             OptionalField(kw.estimated_size_mm,
                                           FloatGeField(kw.estimated_size_mm, 0)))
             dim1 == At("additional_dimension_mm_1",
                        OptionalField(kw.additional_dimension_mm_1,
                                      FloatGeField(kw.additional_dimension_mm_1, 0)))
             dim2 == At("additional_dimension_mm_2",
                        OptionalField(kw.additional_dimension_mm_2,
                                      FloatGeField(kw.additional_dimension_mm_2, 0)))
             note_core == OptionalField(kw.cannot_determine_note,
                                        StrField(kw.cannot_determine_note))
             note == At("cannot_determine_note",
                        Field(kw.cannot_determine_note, None, note_core,
                              RequireEstimateOrNote(note_core.value, InfoData(estimated))))
             errs == AllErrs(<<estimated, dim1, dim2, note>>)
         IN IF errs # <<>> THEN [errs |-> errs, value |-> None]
            ELSE Valid([model |-> "SizeExtent", estimated_size_mm |-> estimated.value,
                        additional_dimension_mm_1 |-> dim1.value,
                        additional_dimension_mm_2 |-> dim2.value,
                        cannot_determine_note |-> note.value])

\* MarginMeasurement(**kw)
MarginMeasurement(kw) ==
    IF kw.t # "dict" THEN Invalid("model_type")
    ELSE LET face == At("face", EnumField(kw.face, MarginFace))
             distance == At("distance",
                            IF kw.distance.t = "absent" THEN Invalid("missing")
                            ELSE DistanceMM(kw.distance))
             errs == AllErrs(<<face, distance>>)
         IN IF errs # <<>> THEN [errs |-> errs, value |-> None]
            ELSE Valid([model |-> "MarginMeasurement", face |-> face.value,
                        distance |-> distance.value])

\* PositiveMarginDetail(**kw)
PositiveMarginDetail(kw) ==
    IF kw.t # "dict" THEN Invalid("model_type")
    ELSE LET face == At("face", EnumField(kw.face, MarginFace))
             description == At("involvement_description",
                               OptionalField(kw.involvement_description,
                                             StrField(kw.involvement_description)))
             errs == AllErrs(<<face, description>>)
         IN IF errs # <<>> THEN [errs |-> errs, value |-> None]
            ELSE Valid([model |-> "PositiveMarginDetail", face |-> face.value,
                        involvement_description |-> description.value])

\* A field declared List[MarginMeasurement] or List[PositiveMarginDetail]:
\* rs are the outcomes of its items.
ListField(v, rs) ==
    IF v.t = "absent" THEN Invalid("missing")
    ELSE IF v.t # "list" THEN Invalid("list_type")
    ELSE LET indexed == [i \in 1..Len(rs) |-> At(Digit(i - 1), rs[i])] IN
         IF AllErrs(indexed) # <<>> THEN [errs |-> AllErrs(indexed), value |-> None]
         ELSE Valid(PyList([i \in 1..Len(rs) |-> rs[i].value]))

\* Margins._validate_negative_details
ValidateNegativeDetails(value, status) ==
    IF status = PyStr("negative") THEN Valid(value)
    ELSE IF Truthy(value) THEN Invalid("value_error")
    ELSE Valid(value)

\* Mutant: positive_details is returned as given whatever the status.
ValidatePositiveDetailsAnyStatus(value, status) == Valid(value)

\* Margins._validate_positive_details
ValidatePositiveDetails(value, status) ==
    IF status = PyStr("positive")
    THEN IF ~Truthy(value) THEN Invalid("value_error") ELSE Valid(value)
    ELSE IF Truthy(value) THEN Invalid("value_error")
    ELSE Valid(value)

\* Margins(**kw)
Margins(kw) ==
    IF kw.t # "dict" THEN Invalid("model_type")
    ELSE LET status == At("status", EnumField(kw.status, MarginStatus))
             negative_core ==
                 ListField(kw.negative_details,
                           IF kw.negative_details.t = "list"
                           THEN [i \in 1..Len(kw.negative_details.l) |->
                                    MarginMeasurement(kw.negative_details.l[i])]
                           ELSE <<>>)
             negative == At("negative_details",
                            Field(kw.negative_details, PyList(<<>>), negative_core,
                                  ValidateNegativeDetails(negative_core.value,
                                                          InfoData(status))))
             positive_core ==
                 ListField(kw.positive_details,
                           IF kw.positive_details.t = "list"
                           THEN [i \in 1..Len(kw.positive_details.l) |->
                                    PositiveMarginDetail(kw.positive_details.l[i])]
                           ELSE <<>>)
             positive == At("positive_details",
                            Field(kw.positive_details, PyList(<<>>), positive_core,
                                  ValidatePositiveDetails(positive_core.value,
                                                          InfoData(status))))
             errs == AllErrs(<<status, negative, positive>>)
         IN IF errs # <<>> THEN [errs |-> errs, value |-> None]
            ELSE Valid([model |-> "Margins", status |-> status.value,
                        negative_details |-> negative.value,
                        positive_details |-> positive.value])

\* RegionalNodes._non_negative_positive_nodes
NonNegativePositiveNodes(value, status) ==
    IF status = PyStr("positive") /\ (value = None \/ value = PyInt(0))
    THEN Invalid("value_error")
    ELSE IF value # None /\ value.n < 0 THEN Invalid("value_error")
    ELSE Valid(value)

\* RegionalNodes._ene_size_requires_presence
EneSizeRequiresPresence(value, ene_present) ==
    IF value # None /\ ene_present # PyBool(TRUE) THEN Invalid("value_error")
    ELSE Valid(value)

\* RegionalNodes(**kw)
RegionalNodes(kw) ==
    IF kw.t # "dict" THEN Invalid("model_type")
    ELSE LET status == At("status", EnumField(kw.status, RegionalNodeStatus))
             examined == At("nodes_examined",
                            OptionalField(kw.nodes_examined, IntGeField(kw.nodes_examined, 0)))
             positive_core == OptionalField(kw.nodes_positive, IntGeField(kw.nodes_positive, 0))
             positive == At("nodes_positive",
                            Field(kw.nodes_positive, None, positive_core,
                                  NonNegativePositiveNodes(positive_core.value,
                                                           InfoData(status))))
             deposit == At("largest_metastatic_deposit",
                           OptionalField(kw.largest_metastatic_deposit,
                                         DistanceMM(kw.largest_metastatic_deposit)))
             ene_present == At("extranodal_extension_present",
                               OptionalField(kw.extranodal_extension_present,
                                   IF kw.extranodal_extension_present.t = "bool"
                                   THEN Valid(kw.extranodal_extension_present)
                                   ELSE Invalid("bool_type")))
             ene_core == OptionalField(kw.extranodal_extension_size,
                                       DistanceMM(kw.extranodal_extension_size))
             ene_size == At("extranodal_extension_size",
                            Field(kw.extranodal_extension_size, None, ene_core,
                                  EneSizeRequiresPresence(ene_core.value,
                                                          InfoData(ene_present))))
             errs == AllErrs(<<status, examined, positive, deposit, ene_present, ene_size>>)
         IN IF errs # <<>> THEN [errs |-> errs, value |-> None]
            ELSE Valid([model |-> "RegionalNodes", status |-> status.value,
                        nodes_examined |-> examined.value,
                        nodes_positive |-> positive.value,
                        largest_metastatic_deposit |-> deposit.value,
                        extranodal_extension_present |-> ene_present.value,
                        extranodal_extension_size |-> ene_size.value])

\* cls(**kwargs) for the model class named cls
ModelValidate(cls, kw) ==
    CASE cls = "DistanceMM" -> DistanceMM(kw)
      [] cls = "SizeExtent" -> SizeExtent(kw)
      [] cls = "Margins" -> Margins(kw)
      [] cls = "RegionalNodes" -> RegionalNodes(kw)

(***************************************************************************)
(* Keyword arguments given to the condensed models                         *)
(***************************************************************************)
\* Keyword arguments for the model class named cls.
Kwargs(cls) ==
    LET GoodDistance == DistanceMMArgs(PyStr("less_than"), PyInt(2), Absent)
        GoodMeasurement ==
            MarginMeasurementArgs(PyStr("superior"),
                                  DistanceMMArgs(PyStr("exact"), PyInt(2), Absent))
        BadMeasurement ==
            MarginMeasurementArgs(PyStr("superior"),
                                  DistanceMMArgs(PyStr("exact"), None, Absent))
        GoodDetail == PositiveMarginDetailArgs(PyStr("deep"), Absent)
        BadDetail == PositiveMarginDetailArgs(PyStr("bogus"), Absent)
    IN CASE cls = "DistanceMM" ->
              {DistanceMMArgs(relation, mm, note) :
                  relation \in {Absent, PyStr("bogus")}
                               \cup {PyStr(r) : r \in DistanceRelation},
                  mm \in {Absent, None, PyFloat(0), PyInt(2), PyInt(-1), PyStr(<<"x">>)},
                  note \in {Absent, PyStr(<<"n">>)}}
         [] cls = "SizeExtent" ->
              {SizeExtentArgs(estimated, dim1, Absent, note) :
                  estimated \in {Absent, None, PyInt(0), PyInt(5), PyInt(-1)},
                  dim1 \in {Absent, PyInt(2)},
                  note \in {Absent, None, PyStr(<<>>), PyStr(<<" ">>), PyStr(<<"w">>),
                            PyInt(3)}}
         [] cls = "Margins" ->
              {MarginsArgs(status, negative, positive) :
                  status \in {Absent, PyStr("negative"), PyStr("positive"), PyStr("bogus")},
                  negative \in {Absent, None, PyList(<<>>), PyList(<<GoodMeasurement>>),
                                PyList(<<GoodMeasurement, BadMeasurement>>)},
                  positive \in {Absent, PyList(<<>>), PyList(<<GoodDetail>>),
                                PyList(<<GoodDetail, GoodDetail>>), PyList(<<BadDetail>>)}}
         [] cls = "RegionalNodes" ->
              {RegionalNodesArgs(status, examined, positive, deposit, ene_present,
                                 ene_size) :
                  status \in {Absent, PyStr("bogus")}
                             \cup {PyStr(r) : r \in RegionalNodeStatus},
                  examined \in {Absent, PyInt(2)},
                  positive \in {Absent, None, PyInt(0), PyInt(1), PyInt(3), PyInt(-1),
                                PyFloat(2), PyStr(<<"x">>)},
                  deposit \in {Absent, GoodDistance},
                  ene_present \in {Absent, PyBool(TRUE), PyBool(FALSE)},
                  ene_size \in {Absent, GoodDistance}}

\* The condensed models are not used in the other specifications.
SchemaIdle ==
    /\ rec_pc = "idle"
    /\ rec_class = ""
    /\ rec_kwargs = None
    /\ rec_result = NoModel

\* cls(**kwargs) returns the record
SchemaAccept ==
    /\ rec_pc = "start"
    /\ ModelValidate(rec_class, rec_kwargs).errs = <<>>
    /\ rec_result' = ModelValidate(rec_class, rec_kwargs)
    /\ rec_pc' = "accepted"
    /\ UNCHANGED <<rec_class, rec_kwargs>>

\* cls(**kwargs) raises ValidationError
SchemaReject ==
    /\ rec_pc = "start"
    /\ ModelValidate(rec_class, rec_kwargs).errs # <<>>
    /\ rec_result' = ModelValidate(rec_class, rec_kwargs)
    /\ rec_pc' = "rejected"
    /\ UNCHANGED <<rec_class, rec_kwargs>>

(***************************************************************************)
(* schemas.py: to_dict and ResectionPrompt; runners/serve_api.py           *)
(***************************************************************************)
\* The decimal digits of n, zero-padded to the given width.
RECURSIVE ZeroPadded(_, _)
ZeroPadded(n, width) ==
    IF width = 0 THEN <<>> ELSE Append(ZeroPadded(n \div 10, width - 1), Digit(n % 10))

\* date.isoformat(): YYYY-MM-DD; datetime.isoformat(): YYYY-MM-DDTHH:MM:SS
IsoFormat(d) ==
    ZeroPadded(d.y, 4) \o <<"-">> \o ZeroPadded(d.m, 2) \o <<"-">> \o ZeroPadded(d.d, 2)
    \o (IF d.t = "datetime"
        THEN <<"T">> \o ZeroPadded(d.hh, 2) \o <<":">> \o ZeroPadded(d.mi, 2)
             \o <<":">> \o ZeroPadded(d.ss, 2)
        ELSE <<>>)

\* SpecimenDetail.to_dict
SpecimenToDict(specimen) ==
    SpecimenDict(PyStr(specimen.identifier), PyStr(specimen.description),
                 specimen.margin_status)

\* PatientContext.to_dict
ToDict(context) ==
    PayloadDict(PyStr(context.patient_id), PyStr(context.clinical_history),
                PyStr(IsoFormat(context.report_date)),
                PyList([i \in 1..Len(context.specimens) |->
                           SpecimenToDict(context.specimens[i])]))

\* data = context.to_dict() on the context validate_context returned
Serialize ==
    /\ vc_pc = "returned"
    /\ vc_result.ok
    /\ vc_dump' = ToDict(vc_result.context)
    /\ vc_pc' = "serialized"
    /\ UNCHANGED <<payload, today, vc_result, vc_result2, vc_dump2>>

\* validate_context(data) on some later day, then to_dict() of its context
Reparse ==
    /\ vc_pc = "serialized"
    /\ \E now \in Todays :
          /\ vc_result2' = ValidateContext(vc_dump, now)
          /\ vc_dump2' = IF ValidateContext(vc_dump, now).ok
                         THEN ToDict(ValidateContext(vc_dump, now).context)
                         ELSE None
    /\ vc_pc' = "reparsed"
    /\ UNCHANGED <<payload, today, vc_result, vc_dump>>

\* ResectionPrompt(context=context), with the declared defaults
ResectionPromptInit(context) ==
    [context |-> context,
     instructions |-> "Use the CAP protocol for ductal carcinoma in situ (DCIS) resection.",
     model_name |-> "gpt-4o"]

\* ResectionPrompt.to_prompt_dict
ToPromptDict(prompt) ==
    LET d == ToDict(prompt.context) IN
    [t |-> "dict", patient_id |-> d.patient_id, report_date |-> d.report_date,
     clinical_history |-> d.clinical_history, specimens |-> d.specimens,
     instructions |-> PyStr(prompt.instructions), model_name |-> PyStr(prompt.model_name)]

\* prompts.DEFAULT_PROMPT
DEFAULT_PROMPT ==
    "You are a pathology assistant helping to prepare a CAP compliant report for ductal carcinoma in situ\n(DCIS) breast resection specimens. Use the provided structured data to generate a concise, factual\nsummary covering margin status, receptor testing, and any ancillary comments. Highlight missing data\nas actionable questions back to the pathologist."

\* raise HTTPException(status_code=..., detail=...)
HTTPException(status_code, detail) ==
    [raised |-> TRUE, type |-> "HTTPException", status_code |-> status_code,
     detail |-> detail]

\* Mutant: the detail is a fixed message instead of the error list.
BuildPromptFixedDetail(locals) ==
    IF ~locals.ok \/ locals.context = None
    THEN HTTPException(422, << [msg |-> "invalid payload", arg |-> <<>>] >>)
    ELSE Return([template |-> DEFAULT_PROMPT,
                 payload |-> ToPromptDict(ResectionPromptInit(locals.context))])

\* build_prompt after `ok, context, errors = validate_context(payload)`
BuildPrompt(locals) ==
    IF ~locals.ok \/ locals.context = None
    THEN HTTPException(422, locals.errors)
    ELSE Return([template |-> DEFAULT_PROMPT,
                 payload |-> ToPromptDict(ResectionPromptInit(locals.context))])

\* The endpoint is not called in the other specifications.
ApiIdle ==
    /\ api_pc = "idle"
    /\ api_payload = None
    /\ api_today = PyDate(2024, 2, 29)
    /\ api_locals = NoResult
    /\ api_response = Return(None)

\* POST /prompts answered with the template and the prompt payload
BuildPromptReturns ==
    /\ api_pc = "start"
    /\ ~BuildPrompt(ValidateContext(api_payload, api_today)).raised
    /\ api_locals' = ValidateContext(api_payload, api_today)
    /\ api_response' = BuildPrompt(ValidateContext(api_payload, api_today))
    /\ api_pc' = "done"
    /\ UNCHANGED <<api_payload, api_today>>

\* POST /prompts answered by raising HTTPException
BuildPromptRaises ==
    /\ api_pc = "start"
    /\ BuildPrompt(ValidateContext(api_payload, api_today)).raised
    /\ api_locals' = ValidateContext(api_payload, api_today)
    /\ api_response' = BuildPrompt(ValidateContext(api_payload, api_today))
    /\ api_pc' = "done"
    /\ UNCHANGED <<api_payload, api_today>>

(***************************************************************************)
(* Concurrent callers: each thread makes one call, generate on the shared  *)
(* ContextWindow or validate_context on its own payload, and the calls run *)
(* statement by statement in any interleaving.  A frame holds the locals   *)
(* of the call; window_size, overlap and today are shared by all threads.  *)
(***************************************************************************)
Threads == {1, 2}

\* The texts short enough to be given to concurrent callers.
CallTexts == UNION {[1..n -> Chars] : n \in 0..MaxCallLen}

\* The calls a thread can make.
Calls ==
    {[op |-> "generate", arg |-> PyStr(s)] : s \in CallTexts}
    \cup {[op |-> "validate_context", arg |-> p] :
            p \in {None} \cup {q \in Payloads :
                     /\ q.t = "dict"
                     /\ q.patient_id \in {PyStr(<<" ">>), PyStr(<<" ", "p", " ">>)}
                     /\ q.clinical_history = Absent
                     /\ q.report_date \in {Absent, PyStr(<<"b", "a", "d">>)}
                     /\ q.specimens
                          \in {Absent,
                               PyList(<<SpecimenDict(PyStr(<<" ", "s", " ">>), Absent, Absent)>>)}}}

\* The locals of a call that has not started.
NoFrame ==
    [tokens |-> <<>>, start |-> 0, step |-> 0, chunks |-> <<>>, halted |-> FALSE,
     kwargs |-> None]

\* No thread exists in the other specifications.
ThreadsIdle ==
    /\ call = [t \in Threads |-> [op |-> "none", arg |-> None]]
    /\ th_pc = [t \in Threads |-> "done"]
    /\ frame = [t \in Threads |-> NoFrame]
    /\ th_result = [t \in Threads |-> NoResult]

\* generate, lines 35-37: split the text; no token, no window.  Otherwise
\* the list comprehension creates the generator, whose body has not run yet.
GenEnter(t) ==
    /\ cw_pc = "constructed"
    /\ th_pc[t] = "ready"
    /\ call[t].op = "generate"
    /\ LET tokens == Split(call[t].arg.s) IN
       IF tokens = <<>>
       THEN /\ th_result' = [th_result EXCEPT ![t] = Return(<<>>)]
            /\ th_pc' = [th_pc EXCEPT ![t] = "done"]
            /\ UNCHANGED frame
       ELSE /\ frame' = [frame EXCEPT ![t].tokens = tokens]
            /\ th_pc' = [th_pc EXCEPT ![t] = "created"]
            /\ UNCHANGED th_result
    /\ UNCHANGED <<call, cwVars, vcVars>>

\* _sliding_slices, lines 24-25: start = 0; step = window_size - overlap
GenStart(t) ==
    /\ th_pc[t] = "created"
    /\ frame' = [frame EXCEPT ![t].start = 0, ![t].step = window_size - overlap]
    /\ th_pc' = [th_pc EXCEPT ![t] = "loop"]
    /\ UNCHANGED <<call, th_result, cwVars, vcVars>>

\* _sliding_slices, lines 26-27, and the comprehension of line 38: while
\* start < len(tokens) the slice is yielded and joined; otherwise the
\* generator is exhausted and generate returns the list.
GenYield(t) ==
    /\ th_pc[t] = "loop"
    /\ IF frame[t].start < Len(frame[t].tokens)
       THEN /\ frame' = [frame EXCEPT ![t].chunks =
                            Append(@, Join(Slice(frame[t].tokens, frame[t].start,
                                                 frame[t].start + window_size)))]
            /\ th_pc' = [th_pc EXCEPT ![t] = "yielded"]
            /\ UNCHANGED th_result
       ELSE /\ th_result' = [th_result EXCEPT ![t] = Return(frame[t].chunks)]
            /\ th_pc' = [th_pc EXCEPT ![t] = "done"]
            /\ UNCHANGED frame
    /\ UNCHANGED <<call, cwVars, vcVars>>

\* Mutant: the call keeps its step in self.window_size.
GenAdvanceStoresStep(t) ==
    /\ th_pc[t] = "yielded"
    /\ IF frame[t].step <= 0
       THEN /\ frame' = [frame EXCEPT ![t].halted = TRUE]
            /\ th_result' = [th_result EXCEPT ![t] = Return(frame[t].chunks)]
            /\ th_pc' = [th_pc EXCEPT ![t] = "done"]
       ELSE /\ frame' = [frame EXCEPT ![t].start = @ + frame[t].step]
            /\ th_pc' = [th_pc EXCEPT ![t] = "loop"]
            /\ UNCHANGED th_result
    /\ window_size' = frame[t].step
    /\ UNCHANGED <<call, cw_pc, window_size_arg, overlap_arg, overlap, text, windows, vcVars>>

\* _sliding_slices, lines 28-30: break when step <= 0 (the generator ends
\* and generate returns the list), otherwise start += step.
GenAdvance(t) ==
    /\ th_pc[t] = "yielded"
    /\ IF frame[t].step <= 0
       THEN /\ frame' = [frame EXCEPT ![t].halted = TRUE]
            /\ th_result' = [th_result EXCEPT ![t] = Return(frame[t].chunks)]
            /\ th_pc' = [th_pc EXCEPT ![t] = "done"]
       ELSE /\ frame' = [frame EXCEPT ![t].start = @ + frame[t].step]
            /\ th_pc' = [th_pc EXCEPT ![t] = "loop"]
            /\ UNCHANGED th_result
    /\ UNCHANGED <<call, cwVars, vcVars>>

\* validate_context, lines 40-51: the isinstance check, then the keyword
\* arguments are collected; the first exception ends the call.
ValCollect(t) ==
    /\ cw_pc = "constructed"
    /\ th_pc[t] = "ready"
    /\ call[t].op = "validate_context"
    /\ LET p == call[t].arg
           specimens == BuildSpecimens(Get(p.specimens, None))
           parsed_date == ParseReportDate(Get(p.report_date, None))
       IN IF p.t # "dict"
          THEN /\ th_result' = [th_result EXCEPT ![t] =
                     Triple(FALSE, None,
                            << [msg |-> "payload must be a dictionary", arg |-> <<>>] >>)]
               /\ th_pc' = [th_pc EXCEPT ![t] = "done"]
               /\ UNCHANGED frame
          ELSE IF specimens.raised \/ parsed_date.raised
          THEN /\ th_result' = [th_result EXCEPT ![t] =
                     Triple(FALSE, None,
                            <<ErrorText(IF specimens.raised THEN specimens
                                        ELSE parsed_date)>>)]
               /\ th_pc' = [th_pc EXCEPT ![t] = "done"]
               /\ UNCHANGED frame
          ELSE /\ frame' = [frame EXCEPT ![t].kwargs =
                     [patient_id |-> Str(Get(p.patient_id, PyStr(<<>>))),
                      clinical_history |-> Str(Get(p.clinical_history, PyStr(<<>>))),
                      specimens |-> specimens.value,
                      report_date |-> IF parsed_date.value # None
                                      THEN parsed_date.value ELSE Absent]]
               /\ th_pc' = [th_pc EXCEPT ![t] = "collected"]
               /\ UNCHANGED th_result
    /\ UNCHANGED <<call, cwVars, vcVars>>

\* validate_context, lines 52-56: PatientContext(**kwargs), which reads
\* date.today() for a report date that was not given, and the return.
ValConstruct(t) ==
    /\ th_pc[t] = "collected"
    /\ LET kw == frame[t].kwargs
           context == PatientContextInit(kw.patient_id, kw.clinical_history,
                                         kw.report_date, kw.specimens, today)
       IN th_result' = [th_result EXCEPT ![t] =
               IF context.raised THEN Triple(FALSE, None, <<ErrorText(context)>>)
               ELSE Triple(TRUE, context.value, <<>>)]
    /\ th_pc' = [th_pc EXCEPT ![t] = "done"]
    /\ UNCHANGED <<call, frame, cwVars, vcVars>>

(***************************************************************************)
(* Objects and references: the list a caller passes to PatientContext, the *)
(* list the context holds, and the dictionaries to_dict and to_prompt_dict *)
(* return live at addresses of a heap, so that two names for one object    *)
(* can be told from two equal objects.                                     *)
(***************************************************************************)
Free == [t |-> "free"]
Ref(a) == [t |-> "ref", addr |-> a]

\* The lowest address that holds no object.
FreeAddr(h) == CHOOSE a \in DOMAIN h : h[a] = Free /\ \A b \in DOMAIN h : h[b] = Free => a <= b

\* The context with the list it refers to read from the heap.
ContextValue(c, h) == [c EXCEPT !.specimens = h[c.specimens.addr].l]

\* The lists a caller passes, and the specimen it appends afterwards.
CallerLists ==
    LET first == SpecimenDetailInit(<<" ", "s", " ">>, <<"d">>, None).value
    IN UNION {[1..n -> {first}] : n \in 0..MaxSpecimens}

\* No object exists in the other specifications.
ObjIdle ==
    /\ obj_pc = "idle"
    /\ heap = <<>>
    /\ caller_items = None
    /\ the_context = None
    /\ context0 = None
    /\ the_prompt = None
    /\ returned = None

\* Mutant: __post_init__ keeps the list it was given instead of copying it.
NewContextKeepsList ==
    /\ obj_pc = "start"
    /\ LET made == PatientContextInit(<<" ", "p", " ">>, <<" ", "h">>, Absent, caller_items, today)
       IN /\ ~made.raised
          /\ heap' = heap
          /\ the_context' = made.value
          /\ context0' = ContextValue(made.value, heap)
    /\ obj_pc' = "constructed"
    /\ UNCHANGED <<caller_items, the_prompt, returned>>

\* context = PatientContext(patient_id, clinical_history, specimens=items):
\* __post_init__ ends with self.specimens = list(self.specimens), a new list
\* with the same elements.
NewContext ==
    /\ obj_pc = "start"
    /\ LET made == PatientContextInit(<<" ", "p", " ">>, <<" ", "h">>, Absent, caller_items, today)
           copy == FreeAddr(heap)
       IN /\ ~made.raised
          /\ heap' = [heap EXCEPT ![copy] = heap[made.value.specimens.addr]]
          /\ the_context' = [made.value EXCEPT !.specimens = Ref(copy)]
          /\ context0' = ContextValue([made.value EXCEPT !.specimens = Ref(copy)],
                                      [heap EXCEPT ![copy] = heap[made.value.specimens.addr]])
    /\ obj_pc' = "constructed"
    /\ UNCHANGED <<caller_items, the_prompt, returned>>

\* The caller appends a specimen to the list it passed to the constructor
\* (once: the list is still as it was passed).
CallerAppends ==
    /\ obj_pc = "constructed"
    /\ heap[caller_items.addr].l = context0.specimens
    /\ heap' = [heap EXCEPT ![caller_items.addr] =
                   PyList(Append(@.l, SpecimenDetailInit(<<"t">>, <<>>, None).value))]
    /\ UNCHANGED <<obj_pc, caller_items, the_context, context0, the_prompt, returned>>

\* prompt = ResectionPrompt(context=context)
NewPrompt ==
    /\ obj_pc = "constructed"
    /\ the_prompt = None
    /\ the_prompt' = ResectionPromptInit(the_context)
    /\ UNCHANGED <<obj_pc, heap, caller_items, the_context, context0, returned>>

\* The heap after the caller's variable is bound to the new dictionary at a:
\* the dictionary it referred to before has no reference left and is freed.
Rebind(h, a) == IF returned = None THEN h ELSE [h EXCEPT ![returned.addr] = Free]

\* data = context.to_dict(): a new dictionary, built from the context
CallToDict ==
    /\ obj_pc = "constructed"
    /\ heap' = Rebind([heap EXCEPT ![FreeAddr(heap)] = ToDict(ContextValue(the_context, heap))],
                      FreeAddr(heap))
    /\ returned' = Ref(FreeAddr(heap))
    /\ UNCHANGED <<obj_pc, caller_items, the_context, context0, the_prompt>>

\* data = prompt.to_prompt_dict(): the dictionary context.to_dict() built,
\* with the two keys of the prompt added to it
CallToPromptDict ==
    /\ obj_pc = "constructed"
    /\ the_prompt # None
    /\ heap' = Rebind([heap EXCEPT ![FreeAddr(heap)] =
                          ToPromptDict([the_prompt EXCEPT
                                           !.context = ContextValue(the_prompt.context, heap)])],
                      FreeAddr(heap))
    /\ returned' = Ref(FreeAddr(heap))
    /\ UNCHANGED <<obj_pc, caller_items, the_context, context0, the_prompt>>

\* The caller overwrites two keys of the dictionary it was given.
CallerEditsDict ==
    /\ obj_pc = "constructed"
    /\ returned # None
    /\ heap[returned.addr].patient_id # PyStr(<<"x">>)
    /\ heap' = [heap EXCEPT ![returned.addr].patient_id = PyStr(<<"x">>),
                            ![returned.addr].specimens = PyList(<<>>)]
    /\ UNCHANGED <<obj_pc, caller_items, the_context, context0, the_prompt, returned>>

(***************************************************************************)
(* Specifications, one per component                                       *)
(***************************************************************************)
\* The ContextWindow is not used in the other specifications.
CWIdle ==
    /\ cw_pc = "idle"
    /\ window_size_arg = 0
    /\ overlap_arg = 0
    /\ window_size = 0
    /\ overlap = 0
    /\ text = <<>>
    /\ windows = <<>>

Init == CWInit /\ VCIdle /\ FormIdle /\ SelIdle /\ SchemaIdle /\ ApiIdle /\ ThreadsIdle /\ ObjIdle

Next ==
    \/ (Construct /\ UNCHANGED <<vcVars, formVars, selVars, schemaVars, apiVars, thVars, objVars>>)
    \/ (ConstructRaises /\ UNCHANGED <<vcVars, formVars, selVars, schemaVars, apiVars, thVars, objVars>>)
    \/ (Generate /\ UNCHANGED <<vcVars, formVars, selVars, schemaVars, apiVars, thVars, objVars>>)

Spec == Init /\ [][Next]_vars

InitValidate == VCInit /\ CWIdle /\ FormIdle /\ SelIdle /\ SchemaIdle /\ ApiIdle /\ ThreadsIdle /\ ObjIdle

NextValidate ==
    \/ (Validate /\ UNCHANGED <<cwVars, formVars, selVars, schemaVars, apiVars, thVars, objVars>>)
    \/ (Serialize /\ UNCHANGED <<cwVars, formVars, selVars, schemaVars, apiVars, thVars, objVars>>)
    \/ (Reparse /\ UNCHANGED <<cwVars, formVars, selVars, schemaVars, apiVars, thVars, objVars>>)

SpecValidate == InitValidate /\ [][NextValidate]_vars

InitForm == FormInit /\ CWIdle /\ VCIdle /\ SelIdle /\ SchemaIdle /\ ApiIdle /\ ThreadsIdle /\ ObjIdle

NextForm ==
    \/ (FormValidate /\ UNCHANGED <<cwVars, vcVars, selVars, schemaVars, apiVars, thVars, objVars>>)

SpecForm == InitForm /\ [][NextForm]_vars

\* Any payload may be given to any union.
InitSelection ==
    /\ sel_pc = "start"
    /\ sel_union \in SelectionUnions
    /\ sel_payload \in SelectionPayloads(sel_union)
    /\ sel_result = NoModel
    /\ CWIdle
    /\ VCIdle
    /\ FormIdle
    /\ SchemaIdle
    /\ ApiIdle
    /\ ThreadsIdle
    /\ ObjIdle

NextSelection ==
    \/ (SelRaise /\ UNCHANGED <<cwVars, vcVars, formVars, schemaVars, apiVars, thVars, objVars>>)

SpecSelection == InitSelection /\ [][NextSelection]_vars

\* Any keyword arguments of its domain may be given to a model class.
InitSchema ==
    /\ rec_pc = "start"
    /\ rec_class \in {"DistanceMM", "SizeExtent", "Margins", "RegionalNodes"}
    /\ rec_kwargs \in Kwargs(rec_class)
    /\ rec_result = NoModel
    /\ CWIdle
    /\ VCIdle
    /\ FormIdle
    /\ SelIdle
    /\ ApiIdle
    /\ ThreadsIdle
    /\ ObjIdle

NextSchema ==
    \/ (SchemaAccept /\ UNCHANGED <<cwVars, vcVars, formVars, selVars, apiVars, thVars, objVars>>)
    \/ (SchemaReject /\ UNCHANGED <<cwVars, vcVars, formVars, selVars, apiVars, thVars, objVars>>)

SpecSchema == InitSchema /\ [][NextSchema]_vars

\* The endpoint declares payload: dict, so only mappings reach build_prompt.
InitApi ==
    /\ api_pc = "start"
    /\ api_payload \in {p \in Payloads : p.t = "dict"}
    /\ api_today \in Todays
    /\ api_locals = NoResult
    /\ api_response = Return(None)
    /\ CWIdle
    /\ VCIdle
    /\ FormIdle
    /\ SelIdle
    /\ SchemaIdle
    /\ ThreadsIdle
    /\ ObjIdle

NextApi ==
    \/ (BuildPromptReturns /\ UNCHANGED <<cwVars, vcVars, formVars, selVars, schemaVars, thVars, objVars>>)
    \/ (BuildPromptRaises /\ UNCHANGED <<cwVars, vcVars, formVars, selVars, schemaVars, thVars, objVars>>)

SpecApi == InitApi /\ [][NextApi]_vars

\* Two threads share one constructed ContextWindow; each makes one call.
InitConcurrent ==
    /\ cw_pc = "start"
    /\ window_size_arg \in -1..MaxWindow
    /\ overlap_arg \in -1..MaxWindow
    /\ text = <<>>
    /\ window_size = 0
    /\ overlap = 0
    /\ windows = <<>>
    /\ call \in [Threads -> Calls]
    /\ th_pc = [t \in Threads |-> "ready"]
    /\ frame = [t \in Threads |-> NoFrame]
    /\ th_result = [t \in Threads |-> NoResult]
    /\ VCIdle
    /\ FormIdle
    /\ SelIdle
    /\ SchemaIdle
    /\ ApiIdle
    /\ ObjIdle

NextConcurrent ==
    \/ (Construct /\ UNCHANGED <<vcVars, formVars, selVars, schemaVars, apiVars, thVars, objVars>>)
    \/ (ConstructRaises /\ UNCHANGED <<vcVars, formVars, selVars, schemaVars, apiVars, thVars, objVars>>)
    \/ \E t \in Threads :
          \/ (GenEnter(t) /\ UNCHANGED <<formVars, selVars, schemaVars, apiVars, objVars>>)
          \/ (GenStart(t) /\ UNCHANGED <<formVars, selVars, schemaVars, apiVars, objVars>>)
          \/ (GenYield(t) /\ UNCHANGED <<formVars, selVars, schemaVars, apiVars, objVars>>)
          \/ (GenAdvance(t) /\ UNCHANGED <<formVars, selVars, schemaVars, apiVars, objVars>>)
          \/ (ValCollect(t) /\ UNCHANGED <<formVars, selVars, schemaVars, apiVars, objVars>>)
          \/ (ValConstruct(t) /\ UNCHANGED <<formVars, selVars, schemaVars, apiVars, objVars>>)

SpecConcurrent == InitConcurrent /\ [][NextConcurrent]_vars

\* One caller constructs a ContextWindow and calls generate once, followed
\* statement by statement; a step that can be taken is eventually taken.
InitGenerate ==
    /\ cw_pc = "start"
    /\ text \in UNION {[1..n -> Chars] : n \in 0..MaxLoopLen}
    /\ window_size_arg \in -1..MaxWindow
    /\ overlap_arg \in -1..MaxWindow
    /\ window_size = 0
    /\ overlap = 0
    /\ windows = <<>>
    /\ call = [t \in Threads |->
                 IF t = 1 THEN [op |-> "generate", arg |-> PyStr(text)]
                 ELSE [op |-> "none", arg |-> None]]
    /\ th_pc = [t \in Threads |-> IF t = 1 THEN "ready" ELSE "done"]
    /\ frame = [t \in Threads |-> NoFrame]
    /\ th_result = [t \in Threads |-> NoResult]
    /\ VCIdle
    /\ FormIdle
    /\ SelIdle
    /\ SchemaIdle
    /\ ApiIdle
    /\ ObjIdle

NextGenerate ==
    \/ (Construct /\ UNCHANGED <<vcVars, formVars, selVars, schemaVars, apiVars, thVars, objVars>>)
    \/ (ConstructRaises /\ UNCHANGED <<vcVars, formVars, selVars, schemaVars, apiVars, thVars, objVars>>)
    \/ \E t \in Threads :
          \/ (GenEnter(t) /\ UNCHANGED <<formVars, selVars, schemaVars, apiVars, objVars>>)
          \/ (GenStart(t) /\ UNCHANGED <<formVars, selVars, schemaVars, apiVars, objVars>>)
          \/ (GenYield(t) /\ UNCHANGED <<formVars, selVars, schemaVars, apiVars, objVars>>)
          \/ (GenAdvance(t) /\ UNCHANGED <<formVars, selVars, schemaVars, apiVars, objVars>>)

SpecGenerate == InitGenerate /\ [][NextGenerate]_vars /\ WF_vars(NextGenerate)

\* A constructed ContextWindow with a text, and a caller holding a list of
\* specimens from which it builds a context and a prompt.
InitObjects ==
    /\ VCIdle
    /\ FormIdle
    /\ SelIdle
    /\ SchemaIdle
    /\ ApiIdle
    /\ ThreadsIdle
    /\ cw_pc = "constructed"
    /\ text \in CallTexts
    /\ window_size_arg \in 1..MaxWindow
    /\ overlap_arg \in 0..(window_size_arg - 1)
    /\ window_size = ContextWindowInit(window_size_arg, overlap_arg).window_size
    /\ overlap = ContextWindowInit(window_size_arg, overlap_arg).overlap
    /\ windows = <<>>
    /\ obj_pc = "start"
    /\ \E l \in CallerLists :
          heap = [a \in 1..4 |-> IF a = 1 THEN PyList(l) ELSE Free]
    /\ caller_items = Ref(1)
    /\ the_context = None
    /\ context0 = None
    /\ the_prompt = None
    /\ returned = None

NextObjects ==
    \/ (Generate /\ UNCHANGED <<vcVars, formVars, selVars, schemaVars, apiVars, thVars, objVars>>)
    \/ (NewContext /\ UNCHANGED <<cwVars, vcVars, formVars, selVars, schemaVars, apiVars, thVars>>)
    \/ (CallerAppends /\ UNCHANGED <<cwVars, vcVars, formVars, selVars, schemaVars, apiVars, thVars>>)
    \/ (NewPrompt /\ UNCHANGED <<cwVars, vcVars, formVars, selVars, schemaVars, apiVars, thVars>>)
    \/ (CallToDict /\ UNCHANGED <<cwVars, vcVars, formVars, selVars, schemaVars, apiVars, thVars>>)
    \/ (CallToPromptDict /\ UNCHANGED <<cwVars, vcVars, formVars, selVars, schemaVars, apiVars, thVars>>)
    \/ (CallerEditsDict /\ UNCHANGED <<cwVars, vcVars, formVars, selVars, schemaVars, apiVars, thVars>>)

SpecObjects == InitObjects /\ [][NextObjects]_vars

(***************************************************************************)
(* Claims about ContextWindow (checked under Spec)                         *)
(***************************************************************************)
\* ceil(a / b) for b > 0
CeilDiv(a, b) == -((-a) \div b)

RECURSIVE SumTokenCounts(_)
\* Total number of tokens in a sequence of window strings.
SumTokenCounts(ws) ==
    IF ws = <<>> THEN 0 ELSE Len(Split(Head(ws))) + SumTokenCounts(Tail(ws))

\* C1: for a valid configuration and n >= 1 tokens, generate returns, in
\* order, one window per start in {0, step, 2*step, ...} below n, and the
\* window of a start is tokens [start, min(start + window_size, n)) joined
\* by single spaces.
C1_WindowsAreClippedSlices ==
    (cw_pc = "generated" /\ Len(Split(text)) >= 1) =>
        LET tokens == Split(text)
            n == Len(tokens)
            step == window_size - overlap
            starts == {s \in 0..(n - 1) : s % step = 0}
        IN /\ Len(windows) = Cardinality(starts)
           /\ \A i \in 1..Len(windows) :
                LET start == (i - 1) * step IN
                /\ start \in starts
                /\ windows[i] =
                     Join([k \in 1..(Min(start + window_size, n) - start) |-> tokens[start + k]])

\* The repository's test: window_size 3, overlap 1 on six tokens.
C1_Witness ==
    /\ cw_pc = "generated"
    /\ window_size = 3
    /\ overlap = 1
    /\ Len(Split(text)) = 6
    /\ windows = << <<"a", " ", "a", " ", "a">>, <<"a", " ", "a", " ", "a">>, <<"a", " ", "a">> >>

\* C2: for token_count > 0, the number of windows is
\* ceil((token_count - overlap) / step).
C2_WindowCountFormula ==
    (cw_pc = "generated" /\ Len(Split(text)) > 0) =>
        Len(windows) = CeilDiv(Len(Split(text)) - overlap, window_size - overlap)

\* C3: the token counts of the windows, minus overlap for each pair of
\* consecutive windows, add up to the token count of the input.
C3_TokenCountsAddUp ==
    (cw_pc = "generated" /\ Len(Split(text)) > 0) =>
        SumTokenCounts(windows) - overlap * (Len(windows) - 1) = Len(Split(text))

\* C4: construction raises exactly when window_size <= 0, overlap < 0 or
\* overlap >= window_size; otherwise both values are stored unchanged, so
\* every instance satisfies 0 <= overlap < window_size, also after generate.
C4_ConstructionChecksConfiguration ==
    /\ cw_pc = "raised" =>
          (window_size_arg <= 0 \/ overlap_arg < 0 \/ overlap_arg >= window_size_arg)
    /\ cw_pc \in {"constructed", "generated"} =>
          /\ ~(window_size_arg <= 0 \/ overlap_arg < 0 \/ overlap_arg >= window_size_arg)
          /\ window_size = window_size_arg
          /\ overlap = overlap_arg
          /\ 0 <= overlap
          /\ overlap < window_size

\* overlap = window_size is refused.
C4_Witness ==
    /\ cw_pc = "raised"
    /\ window_size_arg = 2
    /\ overlap_arg = 2

\* C5: generate returns the empty sequence exactly when the text holds no
\* whitespace-delimited token.
C5_EmptyExactlyWhenNoToken ==
    cw_pc = "generated" =>
        ((windows = <<>>) <=> (\A i \in 1..Len(text) : text[i] \in Whitespace))

\* generate("   ") = []
C5_Witness ==
    /\ cw_pc = "generated"
    /\ text = <<" ", " ", " ">>
    /\ windows = <<>>

(***************************************************************************)
(* Claims about validate_context (checked under SpecValidate)              *)
(***************************************************************************)
\* The call has finished, by returning or by raising.
VCFinished == vc_pc \in {"returned", "raised"}

\* A str that is empty or holds whitespace only.
IsBlankStr(value) ==
    value.t = "str" /\ \A i \in 1..Len(value.s) : value.s[i] \in Whitespace

\* patient_id is missing, empty or whitespace-only.
BlankPatientId(p) == p.patient_id = Absent \/ IsBlankStr(p.patient_id)

\* specimens is a list whose elements are all mappings.
SpecimensWellShaped(p) ==
    p.specimens.t = "list" /\ \A i \in 1..Len(p.specimens.l) : p.specimens.l[i].t = "dict"

\* Some specimen mapping has a missing, empty or whitespace-only identifier.
BlankSpecimenIdentifier(p) ==
    /\ p.specimens.t = "list"
    /\ \E i \in 1..Len(p.specimens.l) :
          /\ p.specimens.l[i].t = "dict"
          /\ (p.specimens.l[i].identifier = Absent \/ IsBlankStr(p.specimens.l[i].identifier))

\* report_date is a non-empty string that is not a calendar date.
UnparseableReportDate(p) ==
    p.report_date.t = "str" /\ p.report_date.s # <<>> /\ FromIsoFormat(p.report_date.s).raised

\* report_date is neither absent, None, a string nor a date (or datetime).
WrongTypeReportDate(p) == p.report_date.t \notin {"absent", "none", "str", "date", "datetime"}

\* The message texts that contain the word patient_id.
MentionsPatientId(e) == e.msg = "patient_id must contain non-whitespace characters"
MentionsIdentifier(e) == e.msg = "identifier must contain non-whitespace characters"
MentionsReportDate(e) ==
    e.msg \in {"Invalid isoformat string", "month must be in 1..12",
               "day is out of range for month", "year is out of range"}

Rejected ==
    /\ vc_pc = "returned"
    /\ vc_result.ok = FALSE
    /\ vc_result.context = None
    /\ Len(vc_result.errors) >= 1

\* C6: validate_context returns either (True, context, []) or
\* (False, None, errors) with at least one message, never a mixture.
C6_ExactlyOneOutcome ==
    VCFinished =>
        /\ vc_pc = "returned"
        /\ \/ (vc_result.ok = TRUE /\ vc_result.context # None /\ vc_result.errors = <<>>)
           \/ (vc_result.ok = FALSE /\ vc_result.context = None /\ Len(vc_result.errors) >= 1)

\* validate_context({"patient_id": "", ...}) from the repository's test.
C6_Witness ==
    /\ vc_pc = "returned"
    /\ payload.t = "dict"
    /\ payload.patient_id = PyStr(<<>>)
    /\ vc_result.ok = FALSE
    /\ vc_result.context = None
    /\ Len(vc_result.errors) = 1

\* C7: validate_context never propagates an exception, and a non-mapping
\* payload, a specimens value that is not a list, a specimens element that
\* is not a mapping, a report_date of the wrong type or unparseable, and
\* blank identifiers all give a returned (False, None, errors).
C7_DefectsAreReturnedNotRaised ==
    VCFinished =>
        /\ vc_pc = "returned"
        /\ payload.t # "dict" => Rejected
        /\ payload.t = "dict" =>
              /\ payload.specimens.t \notin {"absent", "none", "list"} => Rejected
              /\ (payload.specimens.t = "list" /\ ~SpecimensWellShaped(payload)) => Rejected
              /\ WrongTypeReportDate(payload) => Rejected
              /\ UnparseableReportDate(payload) => Rejected
              /\ BlankPatientId(payload) => Rejected
              /\ BlankSpecimenIdentifier(payload) => Rejected

\* C8: a mapping payload whose patient_id is missing, empty or
\* whitespace-only is rejected with a message that mentions patient_id,
\* whatever specimens and report_date contain.
C8_BlankPatientIdIsReported ==
    (VCFinished /\ payload.t = "dict" /\ BlankPatientId(payload)) =>
        /\ Rejected
        /\ \E i \in 1..Len(vc_result.errors) : MentionsPatientId(vc_result.errors[i])

\* C9: when a payload has several independent defects (blank patient_id, a
\* specimen with a blank identifier, an unparseable report_date), the error
\* list holds a message for each of them.
C9_AllDefectsReported ==
    (/\ VCFinished
     /\ payload.t = "dict"
     /\ SpecimensWellShaped(payload)
     /\ Cardinality({d \in {"patient_id", "identifier", "report_date"} :
            \/ (d = "patient_id" /\ BlankPatientId(payload))
            \/ (d = "identifier" /\ BlankSpecimenIdentifier(payload))
            \/ (d = "report_date" /\ UnparseableReportDate(payload))}) >= 2)
    =>  /\ Rejected
        /\ BlankPatientId(payload) =>
              \E i \in 1..Len(vc_result.errors) : MentionsPatientId(vc_result.errors[i])
        /\ BlankSpecimenIdentifier(payload) =>
              \E i \in 1..Len(vc_result.errors) : MentionsIdentifier(vc_result.errors[i])
        /\ UnparseableReportDate(payload) =>
              \E i \in 1..Len(vc_result.errors) : MentionsReportDate(vc_result.errors[i])

(***************************************************************************)
(* Claims about the form model (checked under SpecForm)                    *)
(***************************************************************************)
\* The number held by an int or float value.
NumVal(v) == IF v.t = "int" THEN v.n ELSE v.x

\* Only tumor.size_extent is given, with the 'Estimated size' tag and a
\* positive number as minimum_extent_mm.
MinimalEstimatedPayload(p) ==
    /\ p.specimen = Absent
    /\ p.comments = Absent
    /\ p.margins = Absent
    /\ p.tumor # Absent
    /\ p.tumor # None
    /\ p.tumor.number_of_blocks_examined = Absent
    /\ p.tumor.size_extent.t = "dict"
    /\ p.tumor.size_extent.kind = PyStr(SizeExtentEstimatedKind)
    /\ p.tumor.size_extent.minimum_extent_mm.t \in {"int", "float"}
    /\ NumVal(p.tumor.size_extent.minimum_extent_mm) > 0
    /\ p.tumor.size_extent.additional_dimension_mm_1 = Absent
    /\ p.tumor.size_extent.additional_dimension_mm_2 = Absent
    /\ p.tumor.size_extent.explanation = Absent

\* C10: a record accepted by DCISResection, serialized and validated again,
\* is accepted and serializes to the identical structure; a payload holding
\* only tumor.size_extent with the 'Estimated size' tag and a positive
\* minimum_extent_mm is accepted and the number is preserved.  (An accepted
\* record is what there is to serialize: the statement needs the payload
\* accepted, with the number in the validated record.)
C10_RoundTripIdempotent ==
    (form_pc # "start" /\ MinimalEstimatedPayload(form_payload)) =>
        /\ form_pc = "validated"
        /\ form_model.value.tumor.size_extent.minimum_extent_mm.t = "float"
        /\ NumVal(form_model.value.tumor.size_extent.minimum_extent_mm)
             = NumVal(form_payload.tumor.size_extent.minimum_extent_mm)

(***************************************************************************)
(* Claims about the selection unions (checked under SpecSelection)         *)
(***************************************************************************)
\* The unions that record a distance or a deposit size in millimeters.
DistanceUnions ==
    {"ClosestMarginDistanceSelection",
     "AnteriorMarginDistanceSelection",
     "PosteriorMarginDistanceSelection",
     "SuperiorMarginDistanceSelection",
     "InferiorMarginDistanceSelection",
     "MedialMarginDistanceSelection",
     "LateralMarginDistanceSelection",
     "NodalDepositSelection"}
\* Their 'Exact distance' / 'Exact size', 'Less than' and 'Greater than' tags.
MeasuredKinds ==
    {<<"ClosestMarginDistanceSelection", "Exact distance (350819.100004300)">>,
     <<"ClosestMarginDistanceSelection", "Less than (350822.100004300)">>,
     <<"ClosestMarginDistanceSelection", "Greater than (350820.100004300)">>,
     <<"AnteriorMarginDistanceSelection", "Exact distance (350841.100004300)">>,
     <<"AnteriorMarginDistanceSelection", "Less than (350843.100004300)">>,
     <<"AnteriorMarginDistanceSelection", "Greater than (350842.100004300)">>,
     <<"PosteriorMarginDistanceSelection", "Exact distance (350848.100004300)">>,
     <<"PosteriorMarginDistanceSelection", "Less than (350850.100004300)">>,
     <<"PosteriorMarginDistanceSelection", "Greater than (350849.100004300)">>,
     <<"SuperiorMarginDistanceSelection", "Exact distance (350855.100004300)">>,
     <<"SuperiorMarginDistanceSelection", "Less than (350857.100004300)">>,
     <<"SuperiorMarginDistanceSelection", "Greater than (350856.100004300)">>,
     <<"InferiorMarginDistanceSelection", "Exact distance (350862.100004300)">>,
     <<"InferiorMarginDistanceSelection", "Less than (350864.100004300)">>,
     <<"InferiorMarginDistanceSelection", "Greater than (350863.100004300)">>,
     <<"MedialMarginDistanceSelection", "Exact distance (350869.100004300)">>,
     <<"MedialMarginDistanceSelection", "Less than (350871.100004300)">>,
     <<"MedialMarginDistanceSelection", "Greater than (350870.100004300)">>,
     <<"LateralMarginDistanceSelection", "Exact distance (350876.100004300)">>,
     <<"LateralMarginDistanceSelection", "Less than (350878.100004300)">>,
     <<"LateralMarginDistanceSelection", "Greater than (350877.100004300)">>,
     <<"NodalDepositSelection", "Exact size (40874.100004300)">>,
     <<"NodalDepositSelection", "Less than (351430.100004300)">>,
     <<"NodalDepositSelection", "Greater than (351431.100004300)">>}

\* C11: in every distance union (closest, anterior, posterior, superior,
\* inferior, medial and lateral margin distance, nodal deposit size), a
\* payload whose kind is the 'Exact distance'/'Exact size', 'Less than' or
\* 'Greater than' tag and whose millimeters is null or absent is rejected.
C11_MeasuredDistanceNeedsMillimeters ==
    (/\ sel_pc # "start"
     /\ sel_union \in DistanceUnions
     /\ sel_payload.t = "dict"
     /\ Item(sel_payload, "kind").t = "str"
     /\ <<sel_union, Item(sel_payload, "kind").s>> \in MeasuredKinds
     /\ Item(sel_payload, "millimeters") \in {Absent, None})
        => sel_pc = "rejected"

\* The 'Other (specify)' tag of each union that has one, with the attribute
\* its class declares for the free text.
OtherSpecifyKinds ==
    {<<"ProcedureSelection", "Other (specify) (5296.100004300)", "specification">>,
     <<"TumorSiteSelection", "Other (specify) (5444.100004300)", "description">>,
     <<"ArchitecturalPatternSelection", "Other (specify) (5524.100004300)", "description">>,
     <<"MicrocalcificationSelection", "Other (specify) (38432.100004300)", "description">>,
     <<"ClosestMarginDistanceSelection", "Other (specify) (350816.100004300)", "description">>,
     <<"ClosestMarginSelection", "Other (specify) (26985.100004300)", "description">>,
     <<"MarginStatusSelection", "Other (specify) (350834.100004300)", "description">>,
     <<"AnteriorMarginDistanceSelection", "Other (specify) (350838.100004300)", "description">>,
     <<"PosteriorMarginDistanceSelection", "Other (specify) (350845.100004300)", "description">>,
     <<"SuperiorMarginDistanceSelection", "Other (specify) (350852.100004300)", "description">>,
     <<"InferiorMarginDistanceSelection", "Other (specify) (350859.100004300)", "description">>,
     <<"MedialMarginDistanceSelection", "Other (specify) (350866.100004300)", "description">>,
     <<"LateralMarginDistanceSelection", "Other (specify) (350873.100004300)", "description">>,
     <<"MacrometastasisCountSelection", "Other (specify) (350893.100004300)", "description">>,
     <<"MicrometastasisCountSelection", "Other (specify) (350894.100004300)", "description">>,
     <<"IsolatedTumorCellCountSelection", "Other (specify) (350895.100004300)", "description">>,
     <<"NodalDepositSelection", "Other (specify) (351432.100004300)", "description">>,
     <<"TotalNodesSelection", "Other (specify) (350905.100004300)", "description">>,
     <<"SentinelNodesSelection", "Other (specify) (350910.100004300)", "description">>,
     <<"RegionalLymphNodesFindingsSelection", "Other (specify) (350891.100004300)", "description">>,
     <<"DistantSiteSelection", "Other (specify) (352353.100004300)", "detail">>}

\* C12: an 'Other (specify)' variant (procedure, tumor site, architectural
\* pattern, microcalcification, margin status, margin distances, node
\* counts, regional node findings, ...) whose specification / description is
\* absent or null is rejected, and an error is reported under the path of
\* that attribute (the selected tag, then the attribute's name).
C12_OtherNeedsItsText ==
    \A o \in OtherSpecifyKinds :
        (/\ sel_pc # "start"
         /\ sel_union = o[1]
         /\ sel_payload.t = "dict"
         /\ Item(sel_payload, "kind") = PyStr(o[2])
         /\ Item(sel_payload, o[3]) \in {Absent, None})
            => /\ sel_pc = "rejected"
               /\ \E i \in 1..Len(sel_result.errs) : sel_result.errs[i].loc = <<o[2], o[3]>>

\* C17: in every discriminated union, a payload whose kind is absent or is
\* not one of the union's literal tags (a tag of a different union
\* included, e.g. the anterior-margin 'Exact distance' code used for the
\* closest-margin distance) is rejected; in particular an empty mapping is
\* rejected as a size-extent selection.
C17_UnknownKindIsRejected ==
    (/\ sel_pc # "start"
     /\ sel_payload.t = "dict"
     /\ \/ Item(sel_payload, "kind") = Absent
        \/ Item(sel_payload, "kind").t # "str"
        \/ Item(sel_payload, "kind").s \notin SelectionKinds(sel_union))
        => sel_pc = "rejected"

(***************************************************************************)
(* Claims about the condensed models (checked under SpecSchema)            *)
(***************************************************************************)
SchemaFinished == rec_pc \in {"accepted", "rejected"}

\* C13: every accepted Margins record has no positive_details when its
\* status is negative and no negative_details when its status is positive,
\* and arguments that break either rule are rejected.
C13_MarginDetailsMatchStatus ==
    (SchemaFinished /\ rec_class = "Margins") =>
        /\ rec_pc = "accepted" =>
              /\ rec_result.value.status = PyStr("negative")
                    => rec_result.value.positive_details = PyList(<<>>)
              /\ rec_result.value.status = PyStr("positive")
                    => rec_result.value.negative_details = PyList(<<>>)
        /\ (/\ rec_kwargs.status = PyStr("negative")
            /\ rec_kwargs.positive_details.t = "list"
            /\ rec_kwargs.positive_details.l # <<>>) => rec_pc = "rejected"
        /\ (/\ rec_kwargs.status = PyStr("positive")
            /\ rec_kwargs.negative_details.t = "list"
            /\ rec_kwargs.negative_details.l # <<>>) => rec_pc = "rejected"
\* Negative margins with a well-formed positive detail have been rejected.
C13_Witness ==
    /\ rec_pc = "rejected"
    /\ rec_class = "Margins"
    /\ rec_kwargs = MarginsArgs(PyStr("negative"), Absent,
                                PyList(<<PositiveMarginDetailArgs(PyStr("deep"), Absent)>>))

\* C14: RegionalNodes with status positive is accepted only with an integer
\* nodes_positive of at least 1; nodes_positive null, zero or not supplied
\* at all is rejected.
C14_PositiveStatusNeedsPositiveCount ==
    (SchemaFinished /\ rec_class = "RegionalNodes"
        /\ rec_kwargs.status = PyStr("positive")) =>
        /\ rec_pc = "accepted" =>
              /\ rec_result.value.nodes_positive.t = "int"
              /\ rec_result.value.nodes_positive.n >= 1
        /\ rec_kwargs.nodes_positive \in {Absent, None, PyInt(0)} => rec_pc = "rejected"

\* C15: DistanceMM with relation exact, less_than or greater_than is
\* rejected whenever mm is null or not supplied at all; with relation
\* not_applicable or cannot_be_determined, mm may be left out.
C15_SpecificRelationNeedsMm ==
    (SchemaFinished /\ rec_class = "DistanceMM") =>
        /\ (/\ rec_kwargs.relation \in {PyStr("exact"), PyStr("less_than"),
                                        PyStr("greater_than")}
            /\ rec_kwargs.mm \in {Absent, None}) => rec_pc = "rejected"
        /\ (/\ rec_kwargs.relation \in {PyStr("not_applicable"),
                                        PyStr("cannot_be_determined")}
            /\ rec_kwargs.mm = Absent) => rec_pc = "accepted"

\* C16: SizeExtent is accepted only if estimated_size_mm is not null or
\* cannot_determine_note is a non-empty text; SizeExtent() with no
\* arguments is rejected.
C16_SizeExtentNeedsEstimateOrNote ==
    (SchemaFinished /\ rec_class = "SizeExtent") =>
        /\ rec_pc = "accepted" =>
              \/ rec_result.value.estimated_size_mm # None
              \/ /\ rec_result.value.cannot_determine_note.t = "str"
                 /\ rec_result.value.cannot_determine_note.s # <<>>
        /\ rec_kwargs = SizeExtentArgs(Absent, Absent, Absent, Absent) => rec_pc = "rejected"

(***************************************************************************)
(* More claims about validate_context (checked under SpecValidate)         *)
(***************************************************************************)
\* The text has no whitespace at either end.
NoEdgeWhitespace(s) == s = <<>> \/ (s[1] \notin Whitespace /\ s[Len(s)] \notin Whitespace)

\* str(value) of a payload value is empty or whitespace-only.
BlankAfterStr(value) == IsBlankStr(PyStr(Str(value)))

\* C18: after a successful validate_context, patient_id, clinical_history
\* and every specimen's identifier, description and margin_status carry no
\* leading or trailing whitespace, and a margin_status that is empty after
\* trimming is stored as None; a patient_id or a specimen identifier that is
\* empty after trimming makes the validation fail.
C18_TextFieldsAreTrimmed ==
    /\ (vc_pc = "returned" /\ vc_result.ok) =>
          /\ NoEdgeWhitespace(vc_result.context.patient_id)
          /\ NoEdgeWhitespace(vc_result.context.clinical_history)
          /\ \A i \in 1..Len(vc_result.context.specimens) :
                LET specimen == vc_result.context.specimens[i] IN
                /\ NoEdgeWhitespace(specimen.identifier)
                /\ NoEdgeWhitespace(specimen.description)
                /\ specimen.margin_status # None =>
                      /\ specimen.margin_status.s # <<>>
                      /\ NoEdgeWhitespace(specimen.margin_status.s)
    /\ (VCFinished /\ payload.t = "dict") =>
          /\ BlankAfterStr(Get(payload.patient_id, PyStr(<<>>))) => Rejected
          /\ (/\ Get(payload.specimens, None).t = "list"
              /\ \E i \in 1..Len(payload.specimens.l) :
                    /\ payload.specimens.l[i].t = "dict"
                    /\ BlankAfterStr(Get(payload.specimens.l[i].identifier, PyStr(<<>>))))
                => Rejected

\* The payload is not a mapping, or the first element of its specimens list
\* is not a mapping.
NonMappingWhereExpected(p) ==
    \/ p.t # "dict"
    \/ /\ Get(p.specimens, None).t = "list"
       /\ p.specimens.l # <<>>
       /\ p.specimens.l[1].t # "dict"

\* The message states that a dictionary was expected.
NamesExpectedShape(e) == e.msg = "payload must be a dictionary"

\* C19: where a mapping is expected (the top-level payload, an element of
\* specimens) a non-mapping value yields ok=False with exactly one error
\* message, and that message names the expected shape.
C19_NonMappingIsOneShapeError ==
    (VCFinished /\ NonMappingWhereExpected(payload)) =>
        /\ Rejected
        /\ Len(vc_result.errors) = 1
        /\ NamesExpectedShape(vc_result.errors[1])

(***************************************************************************)
(* Claims about the POST /prompts handler (checked under SpecApi)          *)
(***************************************************************************)
\* C20: build_prompt raises a 422 whose detail is exactly the error list
\* validate_context returned whenever ok is False or the context is null;
\* it builds a ResectionPrompt and returns the template with the prompt
\* payload only when ok is True and the context is not null, so a null
\* record is never used.
C20_HandlerMapsFailureTo422 ==
    api_pc = "done" =>
        LET result == ValidateContext(api_payload, api_today) IN
        /\ api_locals = result
        /\ (~result.ok \/ result.context = None) =>
              /\ api_response.raised
              /\ api_response.status_code = 422
              /\ api_response.detail = result.errors
        /\ ~api_response.raised =>
              /\ result.ok
              /\ result.context # None
              /\ api_response.value.template = DEFAULT_PROMPT
              /\ api_response.value.payload =
                    ToPromptDict(ResectionPromptInit(result.context))
\* A request with a blank patient_id has been answered with a 422 that
\* carries the message of validate_context.
C20_Witness ==
    /\ api_pc = "done"
    /\ api_response.raised
    /\ api_response.status_code = 422
    /\ Len(api_response.detail) = 1
    /\ MentionsPatientId(api_response.detail[1])

(***************************************************************************)
(* Further claims about ContextWindow (checked under Spec)                 *)
(***************************************************************************)
\* C23: only the final window may be shorter than window_size: every window
\* returned by generate other than the last holds exactly window_size
\* tokens, and the last holds between 1 and window_size tokens.
C23_OnlyLastWindowIsShort ==
    (cw_pc = "generated" /\ windows # <<>>) =>
        /\ \A i \in 1..(Len(windows) - 1) : Len(Split(windows[i])) = window_size
        /\ Len(Split(windows[Len(windows)])) >= 1
        /\ Len(Split(windows[Len(windows)])) <= window_size

(***************************************************************************)
(* Further claims about the selection unions (checked under SpecSelection) *)
(***************************************************************************)
\* The 'Cannot be determined' tag of each union whose variant for it
\* declares an attribute for the explanation, with that attribute.
CannotDetermineKinds ==
    {<<"SizeExtentSelection", "Cannot be determined (50300.100004300)", "explanation">>,
     <<"ClosestMarginDistanceSelection", "Cannot be determined (explain) (350817.100004300)", "explanation">>,
     <<"ClosestMarginSelection", "Cannot be determined (explain) (58062.100004300)", "explanation">>,
     <<"MarginStatusSelection", "Cannot be determined (explain) (350835.100004300)", "explanation">>,
     <<"AnteriorMarginDistanceSelection", "Cannot be determined (explain) (350839.100004300)", "explanation">>,
     <<"PosteriorMarginDistanceSelection", "Cannot be determined (explain) (350846.100004300)", "explanation">>,
     <<"SuperiorMarginDistanceSelection", "Cannot be determined (explain) (350853.100004300)", "explanation">>,
     <<"InferiorMarginDistanceSelection", "Cannot be determined (explain) (350860.100004300)", "explanation">>,
     <<"MedialMarginDistanceSelection", "Cannot be determined (explain) (350867.100004300)", "explanation">>,
     <<"LateralMarginDistanceSelection", "Cannot be determined (explain) (350874.100004300)", "explanation">>,
     <<"OtherMarginDistanceSelection", "Cannot be determined (explain) (352293.100004300)", "explanation">>,
     <<"MacrometastasisCountSelection", "Cannot be determined (explain) (44824.100004300)", "explanation">>,
     <<"MicrometastasisCountSelection", "Cannot be determined (explain) (46991.100004300)", "explanation">>,
     <<"IsolatedTumorCellCountSelection", "Cannot be determined (explain) (48966.100004300)", "explanation">>,
     <<"NodalDepositSelection", "Cannot be determined (explain) (55601.100004300)", "explanation">>,
     <<"TotalNodesSelection", "Cannot be determined (explain) (350904.100004300)", "explanation">>,
     <<"SentinelNodesSelection", "Cannot be determined (explain) (350909.100004300)", "explanation">>,
     <<"RegionalLymphNodesFindingsSelection", "Cannot be determined (explain) (350892.100004300)", "explanation">>,
     <<"DistantSiteSelection", "Cannot be determined (352354.100004300)", "detail">>}

\* The tags among them that read 'Cannot be determined (explain)'.
ExplainKinds ==
    CannotDetermineKinds
        \ {<<"SizeExtentSelection", "Cannot be determined (50300.100004300)", "explanation">>,
           <<"DistantSiteSelection", "Cannot be determined (352354.100004300)", "detail">>}

\* C29: an attribute that its tag makes required ('Other (specify)' needs
\* specification / description, 'Cannot be determined (explain)' needs
\* explanation) must be a non-empty string: a payload giving it as the empty
\* string is rejected, as when it is null or missing; and under any other
\* tag of the same union a payload without the attribute gets no error for
\* it.
C29_RequiredTextIsNonEmpty ==
    \A o \in OtherSpecifyKinds \cup ExplainKinds :
        /\ (/\ sel_pc # "start"
            /\ sel_union = o[1]
            /\ sel_payload.t = "dict"
            /\ Item(sel_payload, "kind") = PyStr(o[2])
            /\ Item(sel_payload, o[3]) \in {Absent, None, PyStr(<<>>)})
              => sel_pc = "rejected"
        /\ (/\ sel_pc # "start"
            /\ sel_union = o[1]
            /\ sel_payload.t = "dict"
            /\ Item(sel_payload, "kind").t = "str"
            /\ Item(sel_payload, "kind").s \in SelectionKinds(o[1]) \ {o[2]}
            /\ Item(sel_payload, o[3]) = Absent)
              => \A i \in 1..Len(sel_result.errs) :
                     \/ sel_result.errs[i].loc = <<>>
                     \/ sel_result.errs[i].loc[Len(sel_result.errs[i].loc)] # o[3]

\* C30: a variant whose tag is a 'Cannot be determined' choice is accepted
\* only together with an explanation: a payload selecting it with the
\* explanation missing or null is rejected, for the size-extent and the
\* distant-site variant as for the others.
C30_CannotDetermineNeedsExplanation ==
    \A c \in CannotDetermineKinds :
        (/\ sel_pc # "start"
         /\ sel_union = c[1]
         /\ sel_payload.t = "dict"
         /\ Item(sel_payload, "kind") = PyStr(c[2])
         /\ Item(sel_payload, c[3]) \in {Absent, None})
            => sel_pc = "rejected"

(***************************************************************************)
(* Further claims about validate_context (checked under SpecValidate)      *)
(***************************************************************************)
\* C24: validate_context never returns ok=True for a payload in which
\* patient_id, or the identifier of any specimen, is absent or null.
C24_AcceptanceNeedsSuppliedIdentifiers ==
    (vc_pc = "returned" /\ vc_result.ok) =>
        /\ payload.patient_id \notin {Absent, None}
        /\ Get(payload.specimens, None).t = "list" =>
              \A i \in 1..Len(payload.specimens.l) :
                  payload.specimens.l[i].identifier \notin {Absent, None}

\* The message of the first step of the try block that fails on the mapping
\* p: the specimens in list order, then the report date, then the
\* patient_id check; None when no step fails.
FirstFailure(p) ==
    LET items == Get(p.specimens, None)
        failing == IF items.t = "list"
                   THEN {i \in 1..Len(items.l) : BuildSpecimen(items.l[i]).raised}
                   ELSE {}
        first == CHOOSE i \in failing : \A j \in failing : i <= j
        parsed == ParseReportDate(Get(p.report_date, None))
    IN IF failing # {} THEN ErrorText(BuildSpecimen(items.l[first]))
       ELSE IF items.t # "list" /\ BuildSpecimens(items).raised
            THEN ErrorText(BuildSpecimens(items))
       ELSE IF parsed.raised THEN ErrorText(parsed)
       ELSE IF BlankAfterStr(Get(p.patient_id, PyStr(<<>>)))
            THEN [msg |-> "patient_id must contain non-whitespace characters", arg |-> <<>>]
       ELSE None

\* C25: when validate_context fails on a mapping payload it reports exactly
\* one message, that of the first failing step in the order specimens (in
\* list order), report_date, patient_id; later steps contribute nothing.
C25_FailFastInFixedOrder ==
    (VCFinished /\ payload.t = "dict") =>
        /\ vc_pc = "returned"
        /\ ~vc_result.ok => vc_result.errors = <<FirstFailure(payload)>>
        /\ vc_result.ok => FirstFailure(payload) = None
\* The second specimen's blank identifier is reported, although the report
\* date is unparseable and the patient_id blank as well.
C25_Witness ==
    /\ vc_pc = "returned"
    /\ payload.t = "dict"
    /\ payload.patient_id = PyStr(<<" ">>)
    /\ payload.report_date = PyStr(<<"b", "a", "d">>)
    /\ payload.specimens.t = "list"
    /\ Len(payload.specimens.l) = 2
    /\ payload.specimens.l[1].t = "dict"
    /\ payload.specimens.l[1].identifier = PyStr(<<" ", "s", " ">>)
    /\ payload.specimens.l[2].t = "dict"
    /\ payload.specimens.l[2].identifier = PyStr(<<" ">>)
    /\ vc_result.errors = << [msg |-> "identifier must contain non-whitespace characters", arg |-> <<>>] >>

\* C26: for every payload that validate_context accepts with context c,
\* validate_context(c.to_dict()) succeeds as well and yields a context
\* whose to_dict() equals c.to_dict(), the report date filled in by default
\* included, on whatever day the second call is made.
C26_CanonicalizationIsIdempotent ==
    vc_pc = "reparsed" =>
        /\ vc_result2.ok
        /\ vc_dump2 = vc_dump
        /\ vc_dump = ToDict(vc_result.context)

\* The text is of the form YYYY-MM-DD.
IsIsoDate(s) ==
    /\ Len(s) = 10
    /\ s[5] = "-"
    /\ s[8] = "-"
    /\ \A i \in {1, 2, 3, 4, 6, 7, 9, 10} : IsDigit(s[i])

\* C27: a report_date that is absent, null or the empty string gives a
\* context dated today; an ISO YYYY-MM-DD string gives exactly that date; a
\* date value is kept as is; any other type or an unparseable string gives
\* ok=False; and to_dict emits report_date as a YYYY-MM-DD string.
C27_ReportDateParsing ==
    /\ (vc_pc \in {"returned", "serialized", "reparsed"} /\ vc_result.ok) =>
          LET rd == payload.report_date IN
          /\ rd \in {Absent, None, PyStr(<<>>)} => vc_result.context.report_date = today
          /\ (rd.t = "str" /\ rd.s # <<>>) =>
                /\ IsIsoDate(rd.s)
                /\ IsoFormat(vc_result.context.report_date) = rd.s
                /\ vc_result.context.report_date.t = "date"
          /\ rd.t \in {"date", "datetime"} => vc_result.context.report_date = rd
    /\ (/\ VCFinished
        /\ payload.t = "dict"
        /\ (WrongTypeReportDate(payload) \/ UnparseableReportDate(payload))) => Rejected
    /\ vc_pc \in {"serialized", "reparsed"} =>
          (vc_dump.report_date.t = "str" /\ IsIsoDate(vc_dump.report_date.s))

(***************************************************************************)
(* Claims about concurrent callers (checked under SpecConcurrent)          *)
(***************************************************************************)
\* What the call c returns when it runs alone on a window constructed with
\* (ws, ov) on the day now.
RunAlone(c, ws, ov, now) ==
    IF c.op = "generate" THEN Return(GenerateWindows(c.arg.s, ws, ov))
    ELSE ValidateContext(c.arg, now)

\* C21: calls to generate on one shared ContextWindow and calls to
\* validate_context on separate payloads may interleave arbitrarily: each
\* call returns what it returns when run alone, and the window keeps the
\* window_size and overlap it was constructed with.
C21_InterleavedCallsAreIndependent ==
    /\ cw_pc = "constructed" => (window_size = window_size_arg /\ overlap = overlap_arg)
    /\ \A t \in Threads :
          (th_pc[t] = "done" /\ cw_pc = "constructed") =>
              th_result[t] = RunAlone(call[t], window_size_arg, overlap_arg, today)
\* Thread 1 is between two windows of its generate call while thread 2 has
\* already yielded a window of its own and has not finished.
C21_Witness ==
    /\ call[1].op = "generate"
    /\ call[2].op = "generate"
    /\ call[1].arg # call[2].arg
    /\ th_pc[1] = "yielded"
    /\ Len(frame[1].chunks) = 2
    /\ th_pc[2] = "loop"
    /\ Len(frame[2].chunks) = 1
    /\ frame[2].start < Len(frame[2].tokens)

(***************************************************************************)
(* Claims about the loop of generate (checked under SpecGenerate)          *)
(***************************************************************************)
\* Inside the loop the step is at least 1, the halting branch has not been
\* taken, a window is only yielded for a start below the token count, and
\* no more windows than tokens have been emitted.
LoopInvariant ==
    \A t \in Threads :
        /\ ~frame[t].halted
        /\ th_pc[t] \in {"loop", "yielded"} => frame[t].step >= 1
        /\ th_pc[t] = "yielded" => frame[t].start < Len(frame[t].tokens)
        /\ Len(frame[t].chunks) <= Len(frame[t].tokens)
        /\ (th_pc[t] = "done" /\ call[t].op = "generate" /\ cw_pc = "constructed") =>
              /\ Len(th_result[t].value) <= Len(Split(call[t].arg.s))
              /\ frame[t].start >= Len(frame[t].tokens)

\* Every change of start adds step >= 1, and the test that finds
\* start >= token_count ends the loop without another window.
LoopStep ==
    \A t \in Threads :
        /\ frame'[t].start # frame[t].start =>
              (frame'[t].start = frame[t].start + frame[t].step /\ frame[t].step >= 1)
        /\ (/\ th_pc[t] = "loop"
            /\ th_pc'[t] # "loop"
            /\ frame[t].start >= Len(frame[t].tokens)) =>
              (th_pc'[t] = "done" /\ frame'[t].chunks = frame[t].chunks)

\* C22: for every constructed ContextWindow and every text, generate
\* terminates: step = window_size - overlap is at least 1, start strictly
\* increases by step on every iteration, the 'step <= 0' branch is never
\* taken, the loop ends as soon as start >= token_count, and at most
\* token_count windows are emitted.
C22_GenerateTerminates ==
    /\ []LoopInvariant
    /\ [][LoopStep]_vars
    /\ <>(cw_pc = "raised" \/ th_pc[1] = "done")
\* A call on four tokens with window_size 3 and overlap 2 has returned its
\* four windows.
C22_Witness ==
    /\ cw_pc = "constructed"
    /\ window_size = 3
    /\ overlap = 2
    /\ th_pc[1] = "done"
    /\ Len(frame[1].tokens) = 4
    /\ Len(th_result[1].value) = 4
    /\ frame[1].start = 4

(***************************************************************************)
(* Claims about what the operations leave unchanged                        *)
(***************************************************************************)
\* The configuration, the context and the prompt are what construction made
\* them, and the context's list is not the caller's list.
ObjectsUnchanged ==
    /\ cw_pc \in {"constructed", "generated"} =>
          /\ window_size = ContextWindowInit(window_size_arg, overlap_arg).window_size
          /\ overlap = ContextWindowInit(window_size_arg, overlap_arg).overlap
    /\ obj_pc = "constructed" =>
          /\ ContextValue(the_context, heap) = context0
          /\ the_context.specimens # caller_items
          /\ returned \notin {caller_items, the_context.specimens}
    /\ the_prompt # None => the_prompt = ResectionPromptInit(the_context)

\* A returned dictionary is a new object, built while the one returned before
\* still exists; it holds what the context held when it was constructed, and
\* building it changes no object the caller or the context still refers to.
ReturnsFreshDict ==
    returned' # returned =>
        LET a == returned'.addr IN
        /\ heap[a] = Free
        /\ returned' # None
        /\ heap'[a] \in {ToDict(context0),
                         ToPromptDict([ResectionPromptInit(the_context) EXCEPT !.context = context0])}
        /\ \A b \in DOMAIN heap :
              (b # a /\ (returned = None \/ b # returned.addr)) => heap'[b] = heap[b]
        /\ UNCHANGED <<the_context, the_prompt, caller_items>>

\* C28: after construction no provided operation changes a ContextWindow, a
\* PatientContext or a ResectionPrompt: generate leaves window_size and
\* overlap as constructed; every call of to_dict and to_prompt_dict returns a
\* newly built dictionary with the constructed context's content, whatever
\* the caller did to dictionaries returned earlier, and adding instructions
\* and model_name alters neither context nor prompt; the context holds its
\* own copy of the specimens list, so appending to the list passed to the
\* constructor does not change context.specimens.
C28_OperationsLeaveObjectsUnchanged == []ObjectsUnchanged /\ [][ReturnsFreshDict]_vars

\* generate ran on a text with several windows, the caller appended to the
\* list it had passed, and the dictionary it holds is not the first one it
\* was given: it is a prompt dictionary with the constructed content.
C28_Witness ==
    /\ cw_pc = "generated"
    /\ Len(windows) > 1
    /\ obj_pc = "constructed"
    /\ Len(heap[caller_items.addr].l) > Len(heap[the_context.specimens.addr].l)
    /\ Len(context0.specimens) > 0
    /\ returned # None
    /\ \E a \in DOMAIN heap : a > returned.addr /\ heap[a] = Free
    /\ heap[returned.addr] = ToPromptDict([ResectionPromptInit(the_context) EXCEPT !.context = context0])

====
